---- MODULE Spec2Model ----
(***************************************************************************)
(* A model of the Poseidon duplex sponge of                                *)
(* algorithms/src/crypto_hash/poseidon.rs: the State addressing, the       *)
(* permutation, absorb / squeeze_field_elements and their internal chunk   *)
(* loops.  Field elements are residues modulo a small prime; the sponge    *)
(* records, besides its fields, the events of the call in progress         *)
(* (permutations, additions to and copies from the rate region).           *)
(***************************************************************************)
EXTENDS Integers, Sequences, FiniteSets, TLC

(***************************************************************************)
(* Sizes.  RATE and CAPACITY are the const generics of State and           *)
(* PoseidonSponge; Modulus is the order of the prime field F.              *)
(***************************************************************************)
RATE == 2
CAPACITY == 1
Modulus == 5
INLINE_SIZE == 10

\* Bounds of the exploration: longest input of one absorb call, largest
\* count of one squeeze call, most pieces an input is split into.
MaxAbsorb == 4
MaxSqueeze == 4
MaxPieces == 3
MaxHashInput == 3
MaxBits == 3
MaxBeyond == 2
MaxSharedCalls == 2
MaxExcess == 2
MaxLength == 27

F == 0 .. (Modulus - 1)
InputElems == {0, 1}

Min(a, b) == IF a <= b THEN a ELSE b

(***************************************************************************)
(* Field arithmetic (external collaborator): zero, +, *, pow.              *)
(***************************************************************************)
zero == 0
FAdd(a, b) == (a + b) % Modulus
FMul(a, b) == (a * b) % Modulus

RECURSIVE pow(_, _)
pow(x, e) == IF e = 0 THEN 1 % Modulus ELSE FMul(x, pow(x, e - 1))

(***************************************************************************)
(* PoseidonParameters (external table): ark is one width-tuple per round,  *)
(* mds the width x width matrix.                                           *)
(***************************************************************************)
Width == RATE + CAPACITY

\* A generic table: round constants and an invertible matrix given by
\* formulas in the round and position, so that any width is served.
MixedParameters ==
    [ full_rounds    |-> 2,
      partial_rounds |-> 1,
      alpha          |-> 3,
      ark |-> [r \in 1 .. 3 |-> [j \in 1 .. Width |-> (r + 2 * j) % Modulus]],
      mds |-> [j \in 1 .. Width |->
                 [k \in 1 .. Width |->
                    IF k = j THEN 2 % Modulus
                    ELSE IF k = (j % Width) + 1 THEN 1 % Modulus ELSE 0]] ]

\* Zero round constants and the identity matrix.
PlainParameters ==
    [ full_rounds    |-> 2,
      partial_rounds |-> 1,
      alpha          |-> 3,
      ark |-> [r \in 1 .. 3 |-> [j \in 1 .. Width |-> 0]],
      mds |-> [j \in 1 .. Width |->
                 [k \in 1 .. Width |-> IF k = j THEN 1 % Modulus ELSE 0]] ]

ParameterSets == {MixedParameters, PlainParameters}

\* Round constants and matrix of the kind MixedParameters has, for a given
\* round schedule and exponent.
ScheduleParameters(full_rounds, partial_rounds, alpha) ==
    [ full_rounds    |-> full_rounds,
      partial_rounds |-> partial_rounds,
      alpha          |-> alpha,
      ark |-> [r \in 1 .. (full_rounds + partial_rounds) |->
                 [j \in 1 .. Width |-> (r + 2 * j) % Modulus]],
      mds |-> MixedParameters.mds ]

\* The schedule of the deployed tables: 8 full rounds, 31 partial ones.
WideParameters == ScheduleParameters(8, 31, 3)

\* An odd number of full rounds: the partial rounds start at floor(3/2).
OddParameters == ScheduleParameters(3, 2, 3)

\* The table of the regression vector: exponent 5, zero round constants and
\* the identity matrix, on the deployed schedule.
GoldenParameters ==
    [ full_rounds    |-> 8,
      partial_rounds |-> 31,
      alpha          |-> 5,
      ark |-> [r \in 1 .. 39 |-> [j \in 1 .. Width |-> 0]],
      mds |-> PlainParameters.mds ]

\* Every table a sponge is built from.
AllParameterSets ==
    ParameterSets \cup {WideParameters, OddParameters, GoldenParameters}

(***************************************************************************)
(* State: capacity_state followed by rate_state.                           *)
(***************************************************************************)
StateDefault ==
    [ capacity_state |-> [i \in 1 .. CAPACITY |-> zero],
      rate_state     |-> [i \in 1 .. RATE |-> zero] ]

\* State::iter / iter_mut: the capacity elements chained with the rate ones.
StateIter(st) == st.capacity_state \o st.rate_state

\* The State whose iteration order yields the sequence `flat`.
StateFromIter(flat) ==
    [ capacity_state |-> SubSeq(flat, 1, CAPACITY),
      rate_state     |-> SubSeq(flat, CAPACITY + 1, CAPACITY + RATE) ]

\* Variant of index: the rate region is addressed first.
index_rate_first(st, i) ==
    IF ~(i < RATE + CAPACITY) THEN [panicked |-> TRUE]
    ELSE [panicked |-> FALSE,
          value |-> IF i < RATE THEN st.rate_state[i + 1]
                    ELSE st.capacity_state[i - RATE + 1]]

\* Index<usize> for State (0-based index): the assert, then the element.
index(st, i) ==
    IF ~(i < RATE + CAPACITY) THEN [panicked |-> TRUE]
    ELSE [panicked |-> FALSE,
          value |-> IF i < CAPACITY THEN st.capacity_state[i + 1]
                    ELSE st.rate_state[i - CAPACITY + 1]]

\* IndexMut<usize> for State: the assert, then the state with the element
\* the returned reference points at set to v.
index_mut(st, i, v) ==
    IF ~(i < RATE + CAPACITY) THEN [panicked |-> TRUE, state |-> st]
    ELSE [panicked |-> FALSE,
          state |-> IF i < CAPACITY
                    THEN [st EXCEPT !.capacity_state[i + 1] = v]
                    ELSE [st EXCEPT !.rate_state[i - CAPACITY + 1] = v]]

\* state[index] as an expression, for an index within the width.
StateIndex(st, i) == index(st, i).value

\* state[index] = v as a statement, for an index within the width.
StateIndexMut(st, i, v) == index_mut(st, i, v).state

(***************************************************************************)
(* DuplexSpongeMode.                                                       *)
(***************************************************************************)
Absorbing(i) == [tag |-> "Absorbing", index |-> i]
Squeezing(i) == [tag |-> "Squeezing", index |-> i]

(***************************************************************************)
(* The permutation.                                                        *)
(***************************************************************************)
apply_ark(parameters, st, round_number) ==
    LET flat == StateIter(st)
        row  == parameters.ark[round_number + 1]
    IN StateFromIter([j \in 1 .. Len(flat) |->
            IF j <= Len(row) THEN FAdd(flat[j], row[j]) ELSE flat[j]])

\* Variant of apply_s_box: the exponent is 2 whatever alpha is.
apply_s_box_squares(parameters, st, is_full_round) ==
    IF is_full_round
    THEN LET flat == StateIter(st)
         IN StateFromIter([j \in 1 .. Len(flat) |-> pow(flat[j], 2)])
    ELSE StateIndexMut(st, 0, pow(StateIndex(st, 0), 2))

apply_s_box(parameters, st, is_full_round) ==
    IF is_full_round
    THEN LET flat == StateIter(st)
         IN StateFromIter([j \in 1 .. Len(flat) |-> pow(flat[j], parameters.alpha)])
    ELSE StateIndexMut(st, 0, pow(StateIndex(st, 0), parameters.alpha))

RECURSIVE DotProduct(_, _, _)
DotProduct(xs, row, k) ==
    IF k > Min(Len(xs), Len(row)) THEN zero
    ELSE FAdd(FMul(row[k], xs[k]), DotProduct(xs, row, k + 1))

\* Variant of apply_mds: each element is overwritten as soon as it is
\* computed, so that later rows read elements already updated.
RECURSIVE mds_in_place(_, _, _)
mds_in_place(parameters, flat, j) ==
    IF j > Len(flat) THEN flat
    ELSE mds_in_place(parameters,
                      [flat EXCEPT ![j] = DotProduct(flat, parameters.mds[j], 1)],
                      j + 1)

apply_mds_in_place(parameters, st) ==
    StateFromIter(mds_in_place(parameters, StateIter(st), 1))

apply_mds(parameters, st) ==
    LET flat == StateIter(st)
        blank == StateIter(StateDefault)
    IN StateFromIter([j \in 1 .. Len(blank) |->
            IF j <= Len(parameters.mds)
            THEN DotProduct(flat, parameters.mds[j], 1)
            ELSE blank[j]])

\* Variant of is_full_round: the full rounds come first, the partial ones
\* after them.
is_full_round_first(parameters, i) == i < parameters.full_rounds

\* permute: whether round i lies outside partial_round_range.
is_full_round(parameters, i) ==
    LET full_rounds_over_2 == parameters.full_rounds \div 2
    IN ~(full_rounds_over_2 <= i
         /\ i < full_rounds_over_2 + parameters.partial_rounds)

\* Variant of round_layers: the nonlinear layer runs before the round key
\* is added.
round_layers_s_box_first(parameters, st, i) ==
    LET full == is_full_round(parameters, i)
        after_s_box == apply_s_box(parameters, st, full)
        after_ark == apply_ark(parameters, after_s_box, i)
    IN [ is_full_round |-> full,
         after_ark     |-> after_ark,
         after_s_box   |-> after_s_box,
         state         |-> apply_mds(parameters, after_ark) ]

\* One iteration of permute's loop on the local `state`: the state after
\* apply_ark, after apply_s_box and after apply_mds.
round_layers(parameters, st, i) ==
    LET full == is_full_round(parameters, i)
        after_ark == apply_ark(parameters, st, i)
        after_s_box == apply_s_box(parameters, after_ark, full)
    IN [ is_full_round |-> full,
         after_ark     |-> after_ark,
         after_s_box   |-> after_s_box,
         state         |-> apply_mds(parameters, after_s_box) ]

\* Every State over the field.
AllStates ==
    [ capacity_state : [1 .. CAPACITY -> F], rate_state : [1 .. RATE -> F] ]

RECURSIVE permute_rounds(_, _, _)
permute_rounds(parameters, st, i) ==
    IF i >= parameters.partial_rounds + parameters.full_rounds THEN st
    ELSE LET state == round_layers(parameters, st, i).state
         IN \* round i is finished before round i + 1 starts
            IF state \in AllStates
            THEN permute_rounds(parameters, state, i + 1)
            ELSE state

\* The permutation of every State under each parameter table, tabulated
\* once by permute_rounds (@@ makes the table
\* explicit, so that a lookup does not run the rounds again).
PermutationTable ==
    [ parameters \in AllParameterSets |->
        ([ st \in AllStates |-> permute_rounds(parameters, st, 0) ] @@ << >>) ]
      @@ << >>

\* Variant of permute: the permutation leaves another table in the
\* parameters the sponge refers to.
permute_writes_parameters(self) ==
    [self EXCEPT !.state = PermutationTable[self.parameters][self.state],
                 !.trace = Append(self.trace, <<"permute">>),
                 !.pending = FALSE,
                 !.parameters = PlainParameters]

\* PoseidonSponge::permute on a sponge `self`; the event is logged.
permute(self) ==
    [self EXCEPT !.state = PermutationTable[self.parameters][self.state],
                 !.trace = Append(self.trace, <<"permute">>),
                 !.pending = FALSE]

(***************************************************************************)
(* The chunk loops.  `self` is the sponge: parameters, state, mode, and    *)
(* the bookkeeping of the call in progress: trace (events in order),       *)
(* pending (input was added to the state since the last permutation) and   *)
(* aborted (an index or slice bound was violated: the process panics).     *)
(***************************************************************************)

\* slice::chunks(size): consecutive pieces of `size`, the last one shorter.
RECURSIVE chunks(_, _)
chunks(s, size) ==
    IF Len(s) = 0 THEN << >>
    ELSE IF Len(s) <= size THEN << s >>
    ELSE << SubSeq(s, 1, size) >> \o chunks(SubSeq(s, size + 1, Len(s)), size)

\* Variant of add_chunk: each element overwrites its state element.
RECURSIVE add_chunk_overwrite(_, _, _, _)
add_chunk_overwrite(self, rate_start, chunk, k) ==
    IF k >= Min(Len(chunk), RATE - rate_start) THEN self
    ELSE add_chunk_overwrite(
            [self EXCEPT
               !.state.rate_state[rate_start + k + 1] = chunk[k + 1],
               !.trace = Append(self.trace, <<"add", rate_start + k>>),
               !.pending = TRUE],
            rate_start, chunk, k + 1)

\* Variant of add_chunk: the chunk is zipped with the whole state from
\* index rate_start on, capacity region included.
RECURSIVE add_chunk_whole_state(_, _, _, _)
add_chunk_whole_state(self, rate_start, chunk, k) ==
    IF k >= Min(Len(chunk), RATE - rate_start) THEN self
    ELSE add_chunk_whole_state(
            [self EXCEPT
               !.state = StateIndexMut(self.state, rate_start + k,
                             FAdd(StateIndex(self.state, rate_start + k), chunk[k + 1])),
               !.trace = Append(self.trace, <<"add", rate_start + k>>),
               !.pending = TRUE],
            rate_start, chunk, k + 1)

\* The inner loop of absorb_internal: chunk zipped with rate_state[rate_start..],
\* each element added to its state element.
RECURSIVE add_chunk(_, _, _, _)
add_chunk(self, rate_start, chunk, k) ==
    IF k >= Min(Len(chunk), RATE - rate_start) THEN self
    ELSE add_chunk(
            [self EXCEPT
               !.state.rate_state[rate_start + k + 1] =
                   FAdd(self.state.rate_state[rate_start + k + 1], chunk[k + 1]),
               !.trace = Append(self.trace, <<"add", rate_start + k>>),
               !.pending = TRUE],
            rate_start, chunk, k + 1)

\* Variant of absorb_loop: a chunk that fills the rate region is permuted
\* at once, also when it is the last one.
RECURSIVE absorb_loop_eager(_, _, _, _, _)
absorb_loop_eager(self, rate_start, all_chunks, i, total_num_chunks) ==
    IF i >= Len(all_chunks) THEN self
    ELSE LET chunk == all_chunks[i + 1]
             added == add_chunk(self, rate_start, chunk, 0)
         IN IF i = total_num_chunks - 1
            THEN IF rate_start + Len(chunk) = RATE
                 THEN [permute(added) EXCEPT !.mode = Absorbing(0)]
                 ELSE [added EXCEPT !.mode = Absorbing(rate_start + Len(chunk))]
            ELSE absorb_loop_eager(permute(added), 0, all_chunks, i + 1,
                                   total_num_chunks)

\* Variant of absorb_loop: rate_start is not reset to 0 after a permutation.
RECURSIVE absorb_loop_keeps_start(_, _, _, _, _)
absorb_loop_keeps_start(self, rate_start, all_chunks, i, total_num_chunks) ==
    IF i >= Len(all_chunks) THEN self
    ELSE LET chunk == all_chunks[i + 1]
             added == add_chunk(self, rate_start, chunk, 0)
         IN IF i = total_num_chunks - 1
            THEN [added EXCEPT !.mode = Absorbing(rate_start + Len(chunk))]
            ELSE absorb_loop_keeps_start(permute(added), rate_start, all_chunks,
                                         i + 1, total_num_chunks)

\* Variant of absorb_loop: the last chunk is followed by a permutation too.
RECURSIVE absorb_loop_permute_last(_, _, _, _, _)
absorb_loop_permute_last(self, rate_start, all_chunks, i, total_num_chunks) ==
    IF i >= Len(all_chunks) THEN self
    ELSE LET chunk == all_chunks[i + 1]
             added == add_chunk(self, rate_start, chunk, 0)
         IN IF i = total_num_chunks - 1
            THEN [permute(added) EXCEPT !.mode = Absorbing(rate_start + Len(chunk))]
            ELSE absorb_loop_permute_last(permute(added), 0, all_chunks, i + 1,
                                          total_num_chunks)

\* The loop of absorb_internal over once(first_chunk).chain(rest_chunks).
RECURSIVE absorb_loop(_, _, _, _, _)
absorb_loop(self, rate_start, all_chunks, i, total_num_chunks) ==
    IF i >= Len(all_chunks) THEN self
    ELSE LET chunk == all_chunks[i + 1]
             added == add_chunk(self, rate_start, chunk, 0)
         IN IF i = total_num_chunks - 1
            THEN [added EXCEPT !.mode = Absorbing(rate_start + Len(chunk))]
            ELSE absorb_loop(permute(added), 0, all_chunks, i + 1, total_num_chunks)

\* Variant of absorb_internal: the input is closed with a one before it is
\* added to the state.
absorb_internal_padded(self, rate_start, elements) ==
    IF Len(elements) = 0 THEN self
    ELSE IF rate_start > RATE THEN [self EXCEPT !.aborted = TRUE]
    ELSE LET padded == Append(elements, 1)
             first_chunk_size == Min(RATE - rate_start, Len(padded))
             num_elements_remaining == Len(padded) - first_chunk_size
             first_chunk == SubSeq(padded, 1, first_chunk_size)
             rest_chunk == SubSeq(padded, first_chunk_size + 1, Len(padded))
             rest_chunks == chunks(rest_chunk, RATE)
             total_num_chunks ==
                 1 + (num_elements_remaining \div RATE)
                   + (IF num_elements_remaining % RATE # 0 THEN 1 ELSE 0)
         IN absorb_loop(self, rate_start, << first_chunk >> \o rest_chunks,
                        0, total_num_chunks)

absorb_internal(self, rate_start, elements) ==
    IF Len(elements) = 0 THEN self
    ELSE IF rate_start > RATE THEN [self EXCEPT !.aborted = TRUE]
    ELSE LET first_chunk_size == Min(RATE - rate_start, Len(elements))
             num_elements_remaining == Len(elements) - first_chunk_size
             first_chunk == SubSeq(elements, 1, first_chunk_size)
             rest_chunk == SubSeq(elements, first_chunk_size + 1, Len(elements))
             rest_chunks == chunks(rest_chunk, RATE)
             total_num_chunks ==
                 1 + (num_elements_remaining \div RATE)
                   + (IF num_elements_remaining % RATE # 0 THEN 1 ELSE 0)
         IN absorb_loop(self, rate_start, << first_chunk >> \o rest_chunks,
                        0, total_num_chunks)

\* Variant of copy_chunk: the chunk is copied from the start of the rate
\* region, whatever rate_start is.
RECURSIVE copy_chunk_from_start(_, _, _, _)
copy_chunk_from_start(self, rate_start, len, k) ==
    IF k >= len THEN self
    ELSE copy_chunk_from_start(
            [self EXCEPT
               !.output = Append(self.output, self.state.rate_state[k + 1]),
               !.trace = Append(self.trace, <<"copy", k>>),
               !.stale = self.stale \/ self.pending],
            rate_start, len, k + 1)

\* chunk.copy_from_slice(&rate_state[range]): the copied values, logged.
RECURSIVE copy_chunk(_, _, _, _)
copy_chunk(self, rate_start, len, k) ==
    IF k >= len THEN self
    ELSE copy_chunk(
            [self EXCEPT
               !.output = Append(self.output, self.state.rate_state[rate_start + k + 1]),
               !.trace = Append(self.trace, <<"copy", rate_start + k>>),
               !.stale = self.stale \/ self.pending],
            rate_start, len, k + 1)

\* Variant of squeeze_loop: the final mode forgets the offset the last
\* chunk started at.
RECURSIVE squeeze_loop_drops_start(_, _, _, _, _)
squeeze_loop_drops_start(self, rate_start, chunk_lens, i, total_num_chunks) ==
    IF i >= Len(chunk_lens) THEN self
    ELSE LET len == chunk_lens[i + 1]
         IN IF rate_start + len > RATE THEN [self EXCEPT !.aborted = TRUE]
            ELSE LET copied == copy_chunk(self, rate_start, len, 0)
                 IN IF i = total_num_chunks - 1
                    THEN [copied EXCEPT !.mode = Squeezing(len)]
                    ELSE squeeze_loop_drops_start(permute(copied), 0, chunk_lens,
                                                  i + 1, total_num_chunks)

\* Variant of squeeze_loop: the final offset wraps around at the end of the
\* rate region.
RECURSIVE squeeze_loop_wraps_index(_, _, _, _, _)
squeeze_loop_wraps_index(self, rate_start, chunk_lens, i, total_num_chunks) ==
    IF i >= Len(chunk_lens) THEN self
    ELSE LET len == chunk_lens[i + 1]
         IN IF rate_start + len > RATE THEN [self EXCEPT !.aborted = TRUE]
            ELSE LET copied == copy_chunk(self, rate_start, len, 0)
                 IN IF i = total_num_chunks - 1
                    THEN [copied EXCEPT !.mode = Squeezing((rate_start + len) % RATE)]
                    ELSE squeeze_loop_wraps_index(permute(copied), 0, chunk_lens,
                                                  i + 1, total_num_chunks)

\* The loop of squeeze_internal; chunk_lens are the lengths of the output
\* chunks, self.output collects what has been written to the slice so far.
RECURSIVE squeeze_loop(_, _, _, _, _)
squeeze_loop(self, rate_start, chunk_lens, i, total_num_chunks) ==
    IF i >= Len(chunk_lens) THEN self
    ELSE LET len == chunk_lens[i + 1]
         IN IF rate_start + len > RATE THEN [self EXCEPT !.aborted = TRUE]
            ELSE LET copied == copy_chunk(self, rate_start, len, 0)
                 IN IF i = total_num_chunks - 1
                    THEN [copied EXCEPT !.mode = Squeezing(rate_start + len)]
                    ELSE squeeze_loop(permute(copied), 0, chunk_lens, i + 1,
                                      total_num_chunks)

\* squeeze_internal on an output slice of output_length elements; the slice
\* as written is left in self.output.
squeeze_internal(self, rate_start, output_length) ==
    IF output_length = 0 THEN self
    ELSE IF rate_start > RATE THEN [self EXCEPT !.aborted = TRUE]
    ELSE LET first_chunk_size == Min(RATE - rate_start, output_length)
             num_output_remaining == output_length - first_chunk_size
             rest_chunks ==
                 chunks([j \in 1 .. num_output_remaining |-> zero], RATE)
             total_num_chunks ==
                 1 + (num_output_remaining \div RATE)
                   + (IF num_output_remaining % RATE # 0 THEN 1 ELSE 0)
         IN squeeze_loop(self, rate_start,
                         << first_chunk_size >>
                           \o [j \in 1 .. Len(rest_chunks) |-> Len(rest_chunks[j])],
                         0, total_num_chunks)

(***************************************************************************)
(* AlgebraicSponge for PoseidonSponge.                                     *)
(***************************************************************************)
with_parameters(parameters) ==
    [ parameters |-> parameters,
      state      |-> StateDefault,
      mode       |-> Absorbing(0),
      trace      |-> << >>,
      output     |-> << >>,
      pending    |-> FALSE,
      stale      |-> FALSE,
      aborted    |-> FALSE ]

\* Variant of absorb: every non-empty call starts a fresh block.
absorb_fresh_block(self, input) ==
    IF Len(input) # 0 THEN absorb_internal(permute(self), 0, input) ELSE self

\* Variant of absorb: after a squeeze, input goes on at the squeeze offset
\* with no permutation.
absorb_continues(self, input) ==
    IF Len(input) # 0
    THEN IF self.mode.index = RATE
         THEN absorb_internal(permute(self), 0, input)
         ELSE absorb_internal(self, self.mode.index, input)
    ELSE self

\* Variant of absorb: no check for an empty input.
absorb_unguarded(self, input) ==
    IF self.mode.tag = "Absorbing"
    THEN IF self.mode.index = RATE
         THEN absorb_internal(permute(self), 0, input)
         ELSE absorb_internal(self, self.mode.index, input)
    ELSE absorb_internal(permute(self), 0, input)

absorb(self, input) ==
    IF Len(input) # 0
    THEN IF self.mode.tag = "Absorbing"
         THEN IF self.mode.index = RATE
              THEN absorb_internal(permute(self), 0, input)
              ELSE absorb_internal(self, self.mode.index, input)
         ELSE absorb_internal(permute(self), 0, input)
    ELSE self

\* Variant of squeeze_field_elements: after an absorb, output is read on at
\* the absorb offset with no permutation.
squeeze_continues(self, num_elements) ==
    IF num_elements = 0 THEN [self EXCEPT !.output = << >>]
    ELSE LET buffer == IF num_elements <= INLINE_SIZE
                       THEN [j \in 1 .. INLINE_SIZE |-> zero]
                       ELSE [j \in 1 .. num_elements |-> zero]
             start == [self EXCEPT !.output = << >>]
             done == IF self.mode.index = RATE
                     THEN squeeze_internal(permute(start), 0, num_elements)
                     ELSE squeeze_internal(start, self.mode.index, num_elements)
             written == done.output \o SubSeq(buffer, Len(done.output) + 1, Len(buffer))
         IN [done EXCEPT !.output = SubSeq(written, 1, Min(num_elements, Len(written)))]

\* Variant of squeeze_field_elements: next_squeeze_index is not reset to 0
\* after the permutation of an exhausted rate region.
squeeze_keeps_index(self, num_elements) ==
    IF num_elements = 0 THEN [self EXCEPT !.output = << >>]
    ELSE LET buffer == IF num_elements <= INLINE_SIZE
                       THEN [j \in 1 .. INLINE_SIZE |-> zero]
                       ELSE [j \in 1 .. num_elements |-> zero]
             start == [self EXCEPT !.output = << >>]
             done == IF self.mode.tag = "Absorbing"
                     THEN squeeze_internal(permute(start), 0, num_elements)
                     ELSE IF self.mode.index = RATE
                          THEN squeeze_internal(permute(start), self.mode.index,
                                                num_elements)
                          ELSE squeeze_internal(start, self.mode.index, num_elements)
             written == done.output \o SubSeq(buffer, Len(done.output) + 1, Len(buffer))
         IN [done EXCEPT !.output = SubSeq(written, 1, Min(num_elements, Len(written)))]

\* Variant of squeeze_field_elements: the buffer is returned without truncate.
squeeze_untruncated(self, num_elements) ==
    IF num_elements = 0 THEN [self EXCEPT !.output = << >>]
    ELSE LET buffer == IF num_elements <= INLINE_SIZE
                       THEN [j \in 1 .. INLINE_SIZE |-> zero]
                       ELSE [j \in 1 .. num_elements |-> zero]
             start == [self EXCEPT !.output = << >>]
             done == IF self.mode.tag = "Absorbing"
                     THEN squeeze_internal(permute(start), 0, num_elements)
                     ELSE IF self.mode.index = RATE
                          THEN squeeze_internal(permute(start), 0, num_elements)
                          ELSE squeeze_internal(start, self.mode.index, num_elements)
             written == done.output \o SubSeq(buffer, Len(done.output) + 1, Len(buffer))
         IN [done EXCEPT !.output = written]

\* Variant of squeeze_field_elements: a sponge that has absorbed nothing is
\* read without a permutation.
squeeze_reads_fresh(self, num_elements) ==
    IF num_elements = 0 THEN [self EXCEPT !.output = << >>]
    ELSE LET buffer == IF num_elements <= INLINE_SIZE
                       THEN [j \in 1 .. INLINE_SIZE |-> zero]
                       ELSE [j \in 1 .. num_elements |-> zero]
             start == [self EXCEPT !.output = << >>]
             done == IF self.mode.tag = "Absorbing"
                     THEN IF self.mode.index = 0
                          THEN squeeze_internal(start, 0, num_elements)
                          ELSE squeeze_internal(permute(start), 0, num_elements)
                     ELSE IF self.mode.index = RATE
                          THEN squeeze_internal(permute(start), 0, num_elements)
                          ELSE squeeze_internal(start, self.mode.index, num_elements)
             written == done.output \o SubSeq(buffer, Len(done.output) + 1, Len(buffer))
         IN [done EXCEPT !.output = SubSeq(written, 1, Min(num_elements, Len(written)))]

\* The SmallVec the call returns: the buffer (INLINE_SIZE zeros when
\* num_elements <= INLINE_SIZE, else num_elements zeros) with its first
\* num_elements slots written by squeeze_internal, truncated to num_elements.
squeeze_field_elements(self, num_elements) ==
    IF num_elements = 0 THEN [self EXCEPT !.output = << >>]
    ELSE LET buffer == IF num_elements <= INLINE_SIZE
                       THEN [j \in 1 .. INLINE_SIZE |-> zero]
                       ELSE [j \in 1 .. num_elements |-> zero]
             start == [self EXCEPT !.output = << >>]
             done == IF self.mode.tag = "Absorbing"
                     THEN squeeze_internal(permute(start), 0, num_elements)
                     ELSE IF self.mode.index = RATE
                          THEN squeeze_internal(permute(start), 0, num_elements)
                          ELSE squeeze_internal(start, self.mode.index, num_elements)
             written == done.output \o SubSeq(buffer, Len(done.output) + 1, Len(buffer))
         IN [done EXCEPT !.output = SubSeq(written, 1, Min(num_elements, Len(written)))]

(***************************************************************************)
(* The state machine: one sponge, driven by absorb and squeeze calls.      *)
(* sponge is the PoseidonSponge with the bookkeeping of its latest call;   *)
(* call records which call that was, its argument, and whether any call   *)
(* so far had a non-empty argument; before is the sponge as that call      *)
(* found it.                                                               *)
(***************************************************************************)
VARIABLES sponge, call, before, hasher, circuit, codec

vars == << sponge, call, before, hasher, circuit, codec >>

\* A component no operation has touched.
Idle == [op |-> "idle"]

RECURSIVE SeqsUpTo(_, _)
SeqsUpTo(S, n) ==
    IF n = 0 THEN { << >> }
    ELSE LET shorter == SeqsUpTo(S, n - 1)
         IN shorter \cup { Append(s, x) : s \in { t \in shorter : Len(t) = n - 1 }, x \in S }

Inputs == SeqsUpTo(InputElems, MaxAbsorb)
Counts == (0 .. MaxSqueeze) \cup {INLINE_SIZE, INLINE_SIZE + 1}

\* The sponge as a call finds it: the bookkeeping of the previous call cleared.
Entering(self) == [self EXCEPT !.trace = << >>, !.output = << >>]

Init ==
    /\ \E parameters \in ParameterSets : sponge = with_parameters(parameters)
    /\ call = [op |-> "with_parameters", input |-> << >>, num_elements |-> 0,
               used |-> FALSE]
    /\ before = sponge
    /\ hasher = Idle
    /\ circuit = Idle
    /\ codec = Idle

Absorb(input) ==
    /\ ~sponge.aborted
    /\ sponge' = absorb(Entering(sponge), input)
    /\ call' = [op |-> "absorb", input |-> input, num_elements |-> 0,
                used |-> call.used \/ Len(input) # 0]
    /\ before' = Entering(sponge)
    /\ UNCHANGED << hasher, circuit, codec >>

Squeeze(num_elements) ==
    /\ ~sponge.aborted
    /\ sponge' = squeeze_field_elements(Entering(sponge), num_elements)
    /\ call' = [op |-> "squeeze", input |-> << >>, num_elements |-> num_elements,
                used |-> call.used \/ num_elements # 0]
    /\ before' = Entering(sponge)
    /\ UNCHANGED << hasher, circuit, codec >>

Next ==
    \/ \E input \in Inputs : Absorb(input)
    \/ \E num_elements \in Counts : Squeeze(num_elements)

Spec == Init /\ [][Next]_vars

(***************************************************************************)
(* The default-parameter constructors and PoseidonCryptoHash.  The         *)
(* parameter provider, F::default_poseidon_parameters::<RATE>(optimized),  *)
(* is external: it returns Ok(table) for a rate that has a canonical table *)
(* and Err otherwise.  `unwrap` passes the table on or panics with the     *)
(* error.                                                                  *)
(***************************************************************************)
None == [tag |-> "None"]
UnsupportedRate == 0
ConfigurationError == [tag |-> "Err", error |-> "no canonical Poseidon parameters"]

default_poseidon_parameters(rate, optimized_for_weights) ==
    IF rate = RATE
    THEN [tag |-> "Ok",
          value |-> IF optimized_for_weights THEN WideParameters ELSE MixedParameters]
    ELSE ConfigurationError

\* Result::unwrap: the value, or a panic that carries the error.
unwrap(result) ==
    IF result.tag = "Ok" THEN [panic |-> None, value |-> result.value]
    ELSE [panic |-> result, value |-> None]

\* DefaultCapacityAlgebraicSponge::sample_parameters.
sample_parameters(rate) == unwrap(default_poseidon_parameters(rate, FALSE))

\* DefaultCapacityAlgebraicSponge::with_default_parameters.
with_default_parameters(rate) ==
    LET parameters == unwrap(default_poseidon_parameters(rate, FALSE))
    IN IF parameters.panic # None THEN parameters
       ELSE [panic |-> None,
             value |-> [with_parameters(parameters.value) EXCEPT
                          !.state = StateDefault, !.mode = Absorbing(0)]]

\* Variant of setup: a missing table is replaced by a built-in one.
setup_with_fallback(rate, optimized_for_weights) ==
    LET parameters == default_poseidon_parameters(rate, optimized_for_weights)
    IN [panic |-> None,
        value |-> [parameters |-> IF parameters.tag = "Ok" THEN parameters.value
                                  ELSE PlainParameters]]

\* PoseidonCryptoHash::setup.
setup(rate, optimized_for_weights) ==
    LET parameters == unwrap(default_poseidon_parameters(rate, optimized_for_weights))
    IN IF parameters.panic # None THEN parameters
       ELSE [panic |-> None, value |-> [parameters |-> parameters.value]]

\* Variant of evaluate: the first rate element is read without a squeeze.
evaluate_without_squeeze(self, input) ==
    LET absorbed == absorb(with_parameters(self.parameters), input)
    IN [output |-> absorbed.state.rate_state[1], dropped |-> absorbed]

\* Variant of evaluate: two elements are squeezed and the second returned.
evaluate_second_element(self, input) ==
    LET absorbed == absorb(with_parameters(self.parameters), input)
        squeezed == squeeze_field_elements(absorbed, 2)
    IN [output |-> squeezed.output[2], dropped |-> squeezed]

\* PoseidonCryptoHash::evaluate: the element returned, and the sponge that
\* is dropped at the return (its trace covers the absorb and the squeeze).
evaluate(self, input) ==
    LET fresh == with_parameters(self.parameters)
        absorbed == absorb(fresh, input)
        squeezed == squeeze_field_elements(absorbed, 1)
    IN [output |-> squeezed.output[1], dropped |-> squeezed]

(***************************************************************************)
(* A process that builds one object, a hasher or a sponge, and uses it.    *)
(* `hasher` holds what the process has: op, the constructor it called, and *)
(* request, the rate and the flag it called it with;                       *)
(* hash, the PoseidonCryptoHash; sampled, the table sample_parameters      *)
(* returned; panic, the error the process died of; last, the latest        *)
(* evaluate call; earlier, whether a call came before it and had the same  *)
(* input.  `sponge` is the sponge of with_default_parameters.              *)
(***************************************************************************)
HashElems == {0, 1, 2}
HashInputs == SeqsUpTo(HashElems, MaxHashInput)
SpongeInputs == SeqsUpTo(InputElems, MaxHashInput)
Rates == {RATE, UnsupportedRate}

Nothing ==
    [op |-> "start", request |-> None, hash |-> None, sampled |-> None,
     panic |-> None, last |-> None, earlier |-> None]

HashInit ==
    /\ hasher = Nothing
    /\ sponge = Idle
    /\ before = Idle
    /\ call = Idle
    /\ circuit = Idle
    /\ codec = Idle

Unbuilt == hasher = Nothing /\ sponge = Idle

Setup(rate, optimized_for_weights) ==
    /\ Unbuilt
    /\ LET made == setup(rate, optimized_for_weights)
       IN hasher' = [hasher EXCEPT !.op = "setup", !.hash = made.value,
                                   !.request = << rate, optimized_for_weights >>,
                                   !.panic = made.panic]
    /\ UNCHANGED << sponge, call, before, circuit, codec >>

\* The struct literal PoseidonCryptoHash { parameters }.
Construct(parameters) ==
    /\ Unbuilt
    /\ hasher' = [hasher EXCEPT !.op = "construct", !.hash = [parameters |-> parameters]]
    /\ UNCHANGED << sponge, call, before, circuit, codec >>

SampleParameters(rate) ==
    /\ Unbuilt
    /\ LET made == sample_parameters(rate)
       IN hasher' = [hasher EXCEPT !.op = "sample_parameters", !.sampled = made.value,
                                   !.request = << rate, FALSE >>,
                                   !.panic = made.panic]
    /\ UNCHANGED << sponge, call, before, circuit, codec >>

WithDefaultParameters(rate) ==
    /\ Unbuilt
    /\ LET made == with_default_parameters(rate)
       IN /\ hasher' = [hasher EXCEPT !.op = "with_default_parameters",
                                      !.request = << rate, FALSE >>,
                                      !.panic = made.panic]
          /\ sponge' = IF made.panic = None THEN made.value ELSE sponge
          /\ before' = sponge'
    /\ call' = [op |-> "with_default_parameters", input |-> << >>, num_elements |-> 0,
                used |-> FALSE]
    /\ UNCHANGED << circuit, codec >>

Evaluate(input) ==
    /\ hasher.hash # None
    /\ LET result == evaluate(hasher.hash, input)
       IN hasher' = [hasher EXCEPT
                       !.op = "evaluate",
                       !.last = [input |-> input, output |-> result.output,
                                 dropped |-> result.dropped],
                       !.earlier = IF hasher.last = None THEN None
                                   ELSE [same_input |-> hasher.last.input = input]]
    /\ UNCHANGED << sponge, call, before, circuit, codec >>

SpongeAbsorb(input) == sponge # Idle /\ Absorb(input)

SpongeSqueeze(num_elements) == sponge # Idle /\ Squeeze(num_elements)

HashNext ==
    \/ \E rate \in Rates, optimized_for_weights \in BOOLEAN :
          Setup(rate, optimized_for_weights)
    \/ \E parameters \in AllParameterSets : Construct(parameters)
    \/ \E rate \in Rates : SampleParameters(rate)
    \/ \E rate \in Rates : WithDefaultParameters(rate)
    \/ \E input \in HashInputs : Evaluate(input)
    \/ \E input \in SpongeInputs : SpongeAbsorb(input)
    \/ \E num_elements \in 0 .. MaxHashInput : SpongeSqueeze(num_elements)

SpecHash == HashInit /\ [][HashNext]_vars

(***************************************************************************)
(* Two sponges made from one Arc<PoseidonParameters>.  `before` holds the  *)
(* parameters as they were handed to with_parameters; `sponge` the two     *)
(* sponges, whose parameters field is the one shared object both Arcs      *)
(* point at; `call` the latest call, the calls each sponge has received    *)
(* and the outputs each has returned.  Each sponge is owned by its own     *)
(* caller (&mut self), so calls on different sponges interleave freely.    *)
(***************************************************************************)
SharedInputs == { <<1>>, <<1, 2>>, <<2, 1, 1>> }
SharedCounts == { 1, RATE + 1 }
Owners == 1 .. 2

SharedInit ==
    /\ \E parameters \in ParameterSets :
          /\ before = [parameters |-> parameters]
          /\ sponge = [k \in Owners |-> with_parameters(parameters)]
    /\ call = [op |-> "with_parameters", who |-> 0,
               calls |-> [k \in Owners |-> << >>],
               outputs |-> [k \in Owners |-> << >>]]
    /\ hasher = Idle
    /\ circuit = Idle
    /\ codec = Idle

\* What a call on sponge k leaves behind: sponge k as the call returned it,
\* and in every sponge the parameters object as the call left it.
Returned(k, done) ==
    [j \in Owners |->
        IF j = k THEN done ELSE [sponge[j] EXCEPT !.parameters = done.parameters]]

SharedAbsorb(k, input) ==
    /\ Len(call.calls[k]) < MaxSharedCalls
    /\ sponge' = Returned(k, absorb(Entering(sponge[k]), input))
    /\ call' = [call EXCEPT !.op = "absorb", !.who = k,
                   !.calls[k] = Append(@, [op |-> "absorb", input |-> input])]
    /\ UNCHANGED << before, hasher, circuit, codec >>

SharedSqueeze(k, num_elements) ==
    /\ Len(call.calls[k]) < MaxSharedCalls
    /\ LET done == squeeze_field_elements(Entering(sponge[k]), num_elements)
       IN /\ sponge' = Returned(k, done)
          /\ call' = [call EXCEPT !.op = "squeeze", !.who = k,
                         !.calls[k] = Append(@, [op |-> "squeeze",
                                                 num_elements |-> num_elements]),
                         !.outputs[k] = Append(@, done.output)]
    /\ UNCHANGED << before, hasher, circuit, codec >>

SharedNext ==
    \/ \E k \in Owners, input \in SharedInputs : SharedAbsorb(k, input)
    \/ \E k \in Owners, num_elements \in SharedCounts : SharedSqueeze(k, num_elements)

SpecShared == SharedInit /\ [][SharedNext]_vars

(***************************************************************************)
(* Reads and writes of single state elements.  `sponge` holds the state,   *)
(* `before` the state as the access found it, `call` the access: the       *)
(* index, the value written, and what index / index_mut returned.          *)
(***************************************************************************)
Indices == 0 .. (RATE + CAPACITY + MaxBeyond)

IndexInit ==
    /\ \E st \in AllStates :
          sponge = [with_parameters(MixedParameters) EXCEPT !.state = st]
    /\ before = sponge
    /\ call = [op |-> "start"]
    /\ hasher = Idle
    /\ circuit = Idle
    /\ codec = Idle

\* let x = state[i].
IndexRead(i) ==
    /\ call.op = "start"
    /\ call' = [op |-> "index", index |-> i, result |-> index(sponge.state, i)]
    /\ UNCHANGED << sponge, before, hasher, circuit, codec >>

\* state[i] = v.
IndexWrite(i, v) ==
    /\ call.op = "start"
    /\ LET result == index_mut(sponge.state, i, v)
       IN /\ call' = [op |-> "index_mut", index |-> i, value |-> v,
                      result |-> [panicked |-> result.panicked]]
          /\ sponge' = [sponge EXCEPT !.state = result.state]
    /\ UNCHANGED << before, hasher, circuit, codec >>

\* apply_s_box(&mut state, false).
PartialSBox ==
    /\ call.op = "start"
    /\ call' = [op |-> "apply_s_box"]
    /\ sponge' = [sponge EXCEPT !.state = apply_s_box(sponge.parameters, sponge.state, FALSE)]
    /\ UNCHANGED << before, hasher, circuit, codec >>

IndexNext ==
    \/ \E i \in Indices : IndexRead(i)
    \/ \E i \in Indices, v \in F : IndexWrite(i, v)
    \/ PartialSBox

SpecIndex == IndexInit /\ [][IndexNext]_vars

(***************************************************************************)
(* One call of permute, a round at a time.  `sponge` is self, `before` is  *)
(* self as the call found it, and `call` holds the locals of the loop: the *)
(* next round index i, the local `state`, and the layers of the round just *)
(* run.                                                                    *)
(***************************************************************************)
PermuteInit ==
    /\ \E parameters \in AllParameterSets, st \in AllStates :
          sponge = [with_parameters(parameters) EXCEPT !.state = st]
    /\ before = sponge
    /\ call = [ op            |-> "permute",
                i             |-> 0,
                state         |-> sponge.state,
                entered       |-> sponge.state,
                is_full_round |-> TRUE,
                after_ark     |-> sponge.state,
                after_s_box   |-> sponge.state ]
    /\ hasher = Idle
    /\ circuit = Idle
    /\ codec = Idle

\* One iteration of `for i in 0..(partial_rounds + full_rounds)`.
PermuteRound ==
    /\ call.op \in {"permute", "round"}
    /\ call.i < sponge.parameters.partial_rounds + sponge.parameters.full_rounds
    /\ LET layers == round_layers(sponge.parameters, call.state, call.i)
       IN call' = [ op            |-> "round",
                    i             |-> call.i + 1,
                    state         |-> layers.state,
                    entered       |-> call.state,
                    is_full_round |-> layers.is_full_round,
                    after_ark     |-> layers.after_ark,
                    after_s_box   |-> layers.after_s_box ]
    /\ UNCHANGED << sponge, before, hasher, circuit, codec >>

\* `self.state = state` once the range is exhausted.
PermuteReturn ==
    /\ call.op \in {"permute", "round"}
    /\ call.i >= sponge.parameters.partial_rounds + sponge.parameters.full_rounds
    /\ sponge' = [sponge EXCEPT !.state = call.state,
                                !.trace = Append(sponge.trace, <<"permute">>)]
    /\ call' = [call EXCEPT !.op = "permuted"]
    /\ UNCHANGED << before, hasher, circuit, codec >>

PermuteNext == PermuteRound \/ PermuteReturn

SpecPermute == PermuteInit /\ [][PermuteNext]_vars

(***************************************************************************)
(* Integer<E, I>: the circuit integer of type I is I::BITS Boolean         *)
(* circuits, little-endian, two's complement.  Integer::new, eject_value,  *)
(* eject_mode, to_field, Field addition, to_lower_bits_le and the native   *)
(* wrapping_add are external to add_wrapped.rs.  An integer type is        *)
(* [signed, BITS]; the widths run from 2 to MaxBits, and the base field    *)
(* is larger than 2^(MaxBits + 2).                                         *)
(***************************************************************************)
BaseModulus == 67

Modes == {"Constant", "Public", "Private"}

IntegerTypes == [signed : BOOLEAN, BITS : 2 .. MaxBits]

RECURSIVE Pow2(_)
Pow2(n) == IF n = 0 THEN 1 ELSE 2 * Pow2(n - 1)

\* I::MIN and I::MAX.
MIN(I) == IF I.signed THEN -Pow2(I.BITS - 1) ELSE 0
MAX(I) == IF I.signed THEN Pow2(I.BITS - 1) - 1 ELSE Pow2(I.BITS) - 1

\* Bit k (from 0) of the non-negative number u.
BitOf(u, k) == ((u \div Pow2(k)) % 2) = 1

\* The number whose little-endian bits are the values of `bits`.
RECURSIVE FromBitsLE(_)
FromBitsLE(bits) ==
    IF Len(bits) = 0 THEN 0
    ELSE (IF Head(bits).value THEN 1 ELSE 0) + 2 * FromBitsLE(Tail(bits))

\* Integer::new(mode, value): every bit of the two's complement of value,
\* allocated in the given mode.
IntegerNew(I, mode, value) ==
    [ type    |-> I,
      bits_le |-> [k \in 1 .. I.BITS |->
                     [value |-> BitOf(value % Pow2(I.BITS), k - 1), mode |-> mode]] ]

\* Eject::eject_value of an Integer.
eject_value(x) ==
    LET u == FromBitsLE(x.bits_le)
    IN IF x.type.signed /\ u >= Pow2(x.type.BITS - 1) THEN u - Pow2(x.type.BITS) ELSE u

\* Eject::eject_mode of an Integer: the mode its bits share, Private when
\* they differ.
eject_mode(x) ==
    LET modes == {x.bits_le[k].mode : k \in 1 .. Len(x.bits_le)}
    IN IF modes = {"Constant"} THEN "Constant"
       ELSE IF modes = {"Public"} THEN "Public"
       ELSE "Private"

is_constant(x) == eject_mode(x) = "Constant"

\* Integer::to_field: the bits packed into one field element; the element
\* is a constant only if every bit is.
to_field(x) ==
    [value |-> FromBitsLE(x.bits_le) % BaseModulus, constant |-> is_constant(x)]

\* Field + Field.
FieldAdd(a, b) ==
    [value |-> (a.value + b.value) % BaseModulus, constant |-> a.constant /\ b.constant]

\* Field::to_lower_bits_le(k): the k low bits of the element, constants for
\* a constant element and fresh private variables otherwise.
to_lower_bits_le(f, k) ==
    [n \in 1 .. k |->
        [value |-> BitOf(f.value, n - 1),
         mode  |-> IF f.constant THEN "Constant" ELSE "Private"]]

\* Vec::pop: the sequence without its last element.
pop(bits) == SubSeq(bits, 1, Len(bits) - 1)

\* The native I::wrapping_add.
wrapping_add(I, a, b) ==
    LET sum == a + b
    IN IF sum > MAX(I) THEN sum - Pow2(I.BITS)
       ELSE IF sum < MIN(I) THEN sum + Pow2(I.BITS)
       ELSE sum

\* Variant of add_wrapped: the carry bit is not dropped.
add_wrapped_keeps_carry(self, other) ==
    IF is_constant(self) /\ is_constant(other)
    THEN IntegerNew(self.type, "Constant",
                    wrapping_add(self.type, eject_value(self), eject_value(other)))
    ELSE LET sum == FieldAdd(to_field(self), to_field(other))
         IN [type |-> self.type, bits_le |-> to_lower_bits_le(sum, self.type.BITS + 1)]

\* Variant of add_wrapped: the constant branch is taken when either operand
\* is a constant.
add_wrapped_either_constant(self, other) ==
    IF is_constant(self) \/ is_constant(other)
    THEN IntegerNew(self.type, "Constant",
                    wrapping_add(self.type, eject_value(self), eject_value(other)))
    ELSE LET sum == FieldAdd(to_field(self), to_field(other))
             bits_le == to_lower_bits_le(sum, self.type.BITS + 1)
         IN [type |-> self.type, bits_le |-> pop(bits_le)]

\* Integer::add_wrapped.
add_wrapped(self, other) ==
    IF is_constant(self) /\ is_constant(other)
    THEN IntegerNew(self.type, "Constant",
                    wrapping_add(self.type, eject_value(self), eject_value(other)))
    ELSE LET sum == FieldAdd(to_field(self), to_field(other))
             bits_le == to_lower_bits_le(sum, self.type.BITS + 1)
         IN [type |-> self.type, bits_le |-> pop(bits_le)]

\* OutputMode::output_mode for AddWrapped, on the case (mode_a, mode_b).
output_mode(case) ==
    IF case[1] = "Constant" /\ case[2] = "Constant" THEN "Constant" ELSE "Private"

(***************************************************************************)
(* check_add: two operands are allocated, then added.  `circuit` holds the *)
(* native operands, their modes, the allocated integers, and the candidate *)
(* once add_wrapped has run.                                               *)
(***************************************************************************)
IntInit ==
    /\ circuit = [op |-> "reset"]
    /\ sponge = Idle
    /\ call = Idle
    /\ before = Idle
    /\ hasher = Idle
    /\ codec = Idle

Allocate(I, first, second, mode_a, mode_b) ==
    /\ circuit.op = "reset"
    /\ circuit' = [ op     |-> "new",
                    type   |-> I,
                    first  |-> first,
                    second |-> second,
                    mode_a |-> mode_a,
                    mode_b |-> mode_b,
                    a      |-> IntegerNew(I, mode_a, first),
                    b      |-> IntegerNew(I, mode_b, second),
                    candidate |-> None ]
    /\ UNCHANGED << sponge, call, before, hasher, codec >>

AddWrapped ==
    /\ circuit.op = "new"
    /\ circuit' = [circuit EXCEPT !.op = "add_wrapped",
                                  !.candidate = add_wrapped(circuit.a, circuit.b)]
    /\ UNCHANGED << sponge, call, before, hasher, codec >>

IntNext ==
    \/ \E I \in IntegerTypes, mode_a \in Modes, mode_b \in Modes :
         \E first \in MIN(I) .. MAX(I), second \in MIN(I) .. MAX(I) :
            Allocate(I, first, second, mode_a, mode_b)
    \/ AddWrapped

SpecInt == IntInit /\ [][IntNext]_vars

(***************************************************************************)
(* BatchCertificate<N> and its little-endian bytes.  A certificate is V1   *)
(* (certificate_id, batch_header, signatures: IndexMap signature ->        *)
(* timestamp) or V2 (batch_header, signatures: IndexSet).  The types of    *)
(* the parts, their own byte formats, MAX_SIGNATURES and the validating    *)
(* constructors `from` and `from_v1_deprecated` are external to bytes.rs:  *)
(* the parts are numbers in fixed-width little-endian bytes, with widths   *)
(* scaled down, and a signature verifies against a message by a fixed      *)
(* arithmetic relation.                                                    *)
(***************************************************************************)
MAX_SIGNATURES == 2
SignatureSize == 2
HeaderSize == 2
FieldSize == 2
IdModulus == 509

Signatures == {1, 256, 258}
Headers == {3, 260}
Timestamps == {-1, 0, 300}

Ok(value) == [ok |-> TRUE, value |-> value]
Err(message) == [ok |-> FALSE, error |-> message]

\* n.write_le for an n-byte integer: the low byte first, two's complement.
RECURSIVE to_bytes_le(_, _)
to_bytes_le(v, n) ==
    IF n = 0 THEN << >> ELSE << v % 256 >> \o to_bytes_le(v \div 256, n - 1)

\* The unsigned integer of little-endian bytes.
RECURSIVE from_bytes_le(_)
from_bytes_le(bytes) ==
    IF Len(bytes) = 0 THEN 0 ELSE Head(bytes) + 256 * from_bytes_le(Tail(bytes))

\* The signed integer of little-endian two's complement bytes.
from_bytes_le_signed(bytes) ==
    IF bytes[Len(bytes)] >= 128
    THEN -1 - from_bytes_le([k \in 1 .. Len(bytes) |-> 255 - bytes[k]])
    ELSE from_bytes_le(bytes)

\* Read::read_exact of n bytes; on success the value is the bytes taken and
\* rest the reader after them.
read_exact(reader, n) ==
    IF Len(reader) < n THEN Err("failed to fill whole buffer")
    ELSE [ok |-> TRUE, value |-> SubSeq(reader, 1, n),
          rest |-> SubSeq(reader, n + 1, Len(reader))]

\* T::read_le for an unsigned integer type of n bytes.
read_unsigned(reader, n) ==
    LET taken == read_exact(reader, n)
    IN IF ~taken.ok THEN taken
       ELSE [taken EXCEPT !.value = from_bytes_le(taken.value)]

\* i64::read_le.
read_i64(reader) ==
    LET taken == read_exact(reader, 8)
    IN IF ~taken.ok THEN taken
       ELSE [taken EXCEPT !.value = from_bytes_le_signed(taken.value)]

\* Signature::read_le, BatchHeader::read_le, Field::read_le: the number
\* read has to be one of the type.
read_member(reader, n, members, message) ==
    LET taken == read_unsigned(reader, n)
    IN IF ~taken.ok THEN taken
       ELSE IF taken.value \notin members THEN Err(message)
       ELSE taken

signature_read_le(reader) ==
    read_member(reader, SignatureSize, Signatures, "Invalid signature")

batch_header_read_le(reader) ==
    read_member(reader, HeaderSize, Headers, "Invalid batch header")

field_read_le(reader) ==
    read_member(reader, FieldSize, 0 .. (IdModulus - 1), "Invalid field element")

RECURSIVE SumOf(_)
SumOf(xs) == IF Len(xs) = 0 THEN 0 ELSE Head(xs) + SumOf(Tail(xs))

\* signature.verify(address, message).
Verifies(signature, message) == (signature + SumOf(message)) % 4 # 3

\* The keys of an IndexMap, in insertion order.
Keys(pairs) == [k \in 1 .. Len(pairs) |-> pairs[k][1]]

Distinct(xs) == \A i, j \in 1 .. Len(xs) : xs[i] = xs[j] => i = j

\* compute_certificate_id(batch_id, signatures).
compute_certificate_id(batch_header, signatures) ==
    (batch_header
       + SumOf([k \in 1 .. Len(signatures) |-> signatures[k][1] + signatures[k][2]]))
      % IdModulus

\* BatchCertificate::from_v1_deprecated.
from_v1_deprecated(certificate_id, batch_header, signatures) ==
    IF Len(signatures) > MAX_SIGNATURES THEN Err("Invalid number of signatures")
    ELSE IF certificate_id # compute_certificate_id(batch_header, signatures)
    THEN Err("Invalid batch certificate ID")
    ELSE IF \E k \in 1 .. Len(signatures) :
              ~Verifies(signatures[k][1], << batch_header, signatures[k][2] >>)
    THEN Err("Invalid batch certificate signature")
    ELSE Ok([version |-> 1, certificate_id |-> certificate_id,
             batch_header |-> batch_header, signatures |-> signatures])

\* BatchCertificate::from.
from(batch_header, signatures) ==
    IF Len(signatures) > MAX_SIGNATURES THEN Err("Invalid number of signatures")
    ELSE IF \E k \in 1 .. Len(signatures) :
              ~Verifies(signatures[k], << batch_header >>)
    THEN Err("Invalid batch certificate signature")
    ELSE IF Len(signatures) = 0 THEN Err("Batch certificate must contain signatures")
    ELSE Ok([version |-> 2, batch_header |-> batch_header, signatures |-> signatures])

\* IndexMap::insert: a present key keeps its place and takes the new value.
map_insert(pairs, key, value) ==
    IF \E k \in 1 .. Len(pairs) : pairs[k][1] = key
    THEN [k \in 1 .. Len(pairs) |->
            IF pairs[k][1] = key THEN << key, value >> ELSE pairs[k]]
    ELSE Append(pairs, << key, value >>)

\* IndexSet::insert: a present element is not added again.
set_insert(xs, x) ==
    IF \E k \in 1 .. Len(xs) : xs[k] = x THEN xs ELSE Append(xs, x)

\* A result together with the reads and allocations that led to it, in
\* order: "version", "certificate_id", "batch_header", "num_signatures",
\* "signature", "timestamp" for a field whose read was started,
\* "with_capacity" and "vec" for the storage of the signatures, "read_exact"
\* for the read of the signature bytes.
Traced(result, trace) == [trace |-> trace] @@ result

\* read_le, version 1: the loop `for _ in 0..num_signatures`.
RECURSIVE read_signatures_v1(_, _, _, _)
read_signatures_v1(reader, remaining, signatures, trace) ==
    IF remaining = 0
    THEN [ok |-> TRUE, value |-> signatures, rest |-> reader, trace |-> trace]
    ELSE LET signature == signature_read_le(reader)
         IN IF ~signature.ok THEN Traced(signature, Append(trace, "signature"))
            ELSE LET timestamp == read_i64(signature.rest)
                     read == trace \o << "signature", "timestamp" >>
                 IN IF ~timestamp.ok THEN Traced(timestamp, read)
                    ELSE read_signatures_v1(
                            timestamp.rest, remaining - 1,
                            map_insert(signatures, signature.value, timestamp.value),
                            read)

\* read_le, version 2: the chunks of signature_bytes parsed and collected
\* into an IndexSet.
RECURSIVE read_signatures_v2(_, _, _)
read_signatures_v2(signature_bytes, signatures, trace) ==
    IF Len(signature_bytes) = 0 THEN Traced(Ok(signatures), trace)
    ELSE LET size == Min(SignatureSize, Len(signature_bytes))
             signature == signature_read_le(SubSeq(signature_bytes, 1, size))
         IN IF ~signature.ok THEN Traced(signature, Append(trace, "signature"))
            ELSE read_signatures_v2(
                    SubSeq(signature_bytes, size + 1, Len(signature_bytes)),
                    set_insert(signatures, signature.value),
                    Append(trace, "signature"))

read_le_v1(reader) ==
    LET certificate_id == field_read_le(reader)
    IN IF ~certificate_id.ok THEN Traced(certificate_id, << "certificate_id" >>)
       ELSE LET batch_header == batch_header_read_le(certificate_id.rest)
       IN IF ~batch_header.ok
          THEN Traced(batch_header, << "certificate_id", "batch_header" >>)
       ELSE LET num_signatures == read_unsigned(batch_header.rest, 4)
                header == << "certificate_id", "batch_header", "num_signatures" >>
       IN IF ~num_signatures.ok THEN Traced(num_signatures, header)
       ELSE IF num_signatures.value > MAX_SIGNATURES
       THEN Traced(Err("Number of signatures exceeds the maximum"), header)
       ELSE LET signatures ==
                  read_signatures_v1(num_signatures.rest, num_signatures.value, << >>,
                                     Append(header, "with_capacity"))
       IN IF ~signatures.ok THEN signatures
       ELSE Traced(from_v1_deprecated(certificate_id.value, batch_header.value,
                                      signatures.value),
                   signatures.trace)

\* Variant of read_le_v2: no check of the count against MAX_SIGNATURES.
read_le_v2_unbounded(reader) ==
    LET batch_header == batch_header_read_le(reader)
    IN IF ~batch_header.ok THEN Traced(batch_header, << "batch_header" >>)
       ELSE LET num_signatures == read_unsigned(batch_header.rest, 2)
                header == << "batch_header", "num_signatures" >>
       IN IF ~num_signatures.ok THEN Traced(num_signatures, header)
       ELSE LET signature_bytes ==
                  read_exact(num_signatures.rest, num_signatures.value * SignatureSize)
                taken == header \o << "vec", "read_exact" >>
       IN IF ~signature_bytes.ok THEN Traced(signature_bytes, taken)
       ELSE LET signatures == read_signatures_v2(signature_bytes.value, << >>, taken)
       IN IF ~signatures.ok THEN signatures
       ELSE Traced(from(batch_header.value, signatures.value), signatures.trace)

read_le_v2(reader) ==
    LET batch_header == batch_header_read_le(reader)
    IN IF ~batch_header.ok THEN Traced(batch_header, << "batch_header" >>)
       ELSE LET num_signatures == read_unsigned(batch_header.rest, 2)
                header == << "batch_header", "num_signatures" >>
       IN IF ~num_signatures.ok THEN Traced(num_signatures, header)
       ELSE IF num_signatures.value > MAX_SIGNATURES
       THEN Traced(Err("Number of signatures exceeds the maximum"), header)
       ELSE LET signature_bytes ==
                  read_exact(num_signatures.rest, num_signatures.value * SignatureSize)
                taken == header \o << "vec", "read_exact" >>
       IN IF ~signature_bytes.ok THEN Traced(signature_bytes, taken)
       ELSE LET signatures == read_signatures_v2(signature_bytes.value, << >>, taken)
       IN IF ~signatures.ok THEN signatures
       ELSE Traced(from(batch_header.value, signatures.value), signatures.trace)

\* Variant of read_le: a version other than 1 is read as version 2.
read_le_any_version(reader) ==
    LET version == read_unsigned(reader, 1)
    IN IF ~version.ok THEN Traced(version, << "version" >>)
       ELSE LET read == IF version.value = 1 THEN read_le_v1(version.rest)
                        ELSE read_le_v2(version.rest)
            IN [read EXCEPT !.trace = << "version" >> \o @]

\* FromBytes::read_le for BatchCertificate.
read_le(reader) ==
    LET version == read_unsigned(reader, 1)
    IN IF ~version.ok THEN Traced(version, << "version" >>)
       ELSE IF version.value # 1 /\ version.value # 2
       THEN Traced(Err("Invalid batch certificate version"), << "version" >>)
       ELSE LET read == IF version.value = 1 THEN read_le_v1(version.rest)
                        ELSE read_le_v2(version.rest)
            IN [read EXCEPT !.trace = << "version" >> \o @]

\* The bytes of the signatures of a V1 certificate: signature, timestamp.
RECURSIVE write_signatures_v1(_)
write_signatures_v1(signatures) ==
    IF Len(signatures) = 0 THEN << >>
    ELSE to_bytes_le(Head(signatures)[1], SignatureSize)
           \o to_bytes_le(Head(signatures)[2], 8)
           \o write_signatures_v1(Tail(signatures))

\* The bytes of the signatures of a V2 certificate.
RECURSIVE write_signatures_v2(_)
write_signatures_v2(signatures) ==
    IF Len(signatures) = 0 THEN << >>
    ELSE to_bytes_le(Head(signatures), SignatureSize)
           \o write_signatures_v2(Tail(signatures))

\* Variant of write_le: a V1 certificate writes its count in two bytes, as
\* a V2 certificate does.
write_le_narrow_count(self) ==
    IF self.version = 1
    THEN Ok(<< 1 >> \o to_bytes_le(self.certificate_id, FieldSize)
                   \o to_bytes_le(self.batch_header, HeaderSize)
                   \o to_bytes_le(Len(self.signatures), 2)
                   \o write_signatures_v1(self.signatures))
    ELSE Ok(<< 2 >> \o to_bytes_le(self.batch_header, HeaderSize)
                   \o to_bytes_le(Len(self.signatures), 2)
                   \o write_signatures_v2(self.signatures))

\* ToBytes::write_le for BatchCertificate: the bytes written, or the error
\* of the count conversion (65535 is u16::MAX; u32::MAX is out of reach).
write_le(self) ==
    IF self.version = 1
    THEN Ok(<< 1 >> \o to_bytes_le(self.certificate_id, FieldSize)
                   \o to_bytes_le(self.batch_header, HeaderSize)
                   \o to_bytes_le(Len(self.signatures), 4)
                   \o write_signatures_v1(self.signatures))
    ELSE IF Len(self.signatures) > 65535
    THEN Err("out of range integral type conversion attempted")
    ELSE Ok(<< 2 >> \o to_bytes_le(self.batch_header, HeaderSize)
                   \o to_bytes_le(Len(self.signatures), 2)
                   \o write_signatures_v2(self.signatures))

(***************************************************************************)
(* test_bytes: a sampled certificate is written, and the bytes are read.   *)
(* `codec` holds the certificate, the result of write_le and the result of *)
(* read_le.  The samples are the certificates the validating constructors  *)
(* return, on up to MAX_SIGNATURES distinct signatures.                    *)
(***************************************************************************)
SignatureSets == { xs \in SeqsUpTo(Signatures, MAX_SIGNATURES) : Distinct(xs) }

\* The IndexMaps on those signatures: every choice of timestamps.
SignatureMaps ==
    UNION { { [k \in 1 .. Len(xs) |-> << xs[k], timestamps[k] >>] :
                timestamps \in [1 .. Len(xs) -> Timestamps] } :
            xs \in SignatureSets }

Built(results) == { r.value : r \in { q \in results : q.ok } }

sample_batch_certificates ==
    Built({ from(batch_header, signatures) :
              batch_header \in Headers, signatures \in SignatureSets })
    \cup
    Built({ from_v1_deprecated(compute_certificate_id(batch_header, signatures),
                               batch_header, signatures) :
              batch_header \in Headers, signatures \in SignatureMaps })

BytesInit ==
    /\ codec = [op |-> "start"]
    /\ sponge = Idle
    /\ call = Idle
    /\ before = Idle
    /\ hasher = Idle
    /\ circuit = Idle

Sample(expected) ==
    /\ codec.op = "start"
    /\ codec' = [op |-> "sample", expected |-> expected,
                 expected_bytes |-> None, read |-> None]
    /\ UNCHANGED << sponge, call, before, hasher, circuit >>

ToBytesLe ==
    /\ codec.op = "sample"
    /\ codec' = [codec EXCEPT !.op = "to_bytes_le",
                              !.expected_bytes = write_le(codec.expected)]
    /\ UNCHANGED << sponge, call, before, hasher, circuit >>

ReadLe ==
    /\ codec.op = "to_bytes_le"
    /\ codec.expected_bytes.ok
    /\ codec' = [codec EXCEPT !.op = "read_le",
                              !.read = read_le(codec.expected_bytes.value)]
    /\ UNCHANGED << sponge, call, before, hasher, circuit >>

BytesNext ==
    \/ \E expected \in sample_batch_certificates : Sample(expected)
    \/ ToBytesLe
    \/ ReadLe

SpecBytes == BytesInit /\ [][BytesNext]_vars

(***************************************************************************)
(* read_le on bytes that write_le did not produce.  A certificate is       *)
(* written; then its version byte may be replaced, then the count field of *)
(* the layout the version byte selects, then the end may be cut off; then  *)
(* the bytes are read.  `codec` holds the certificate, the bytes, whether  *)
(* they have been altered, and the result of read_le.                      *)
(***************************************************************************)
Versions == {0, 1, 2, 3, 255}
WrittenCounts == (0 .. (MAX_SIGNATURES + MaxExcess)) \cup {65537}

\* Where the count field ends in bytes of the given version.
CountEnd(version) ==
    IF version = 1 THEN 1 + FieldSize + HeaderSize + 4 ELSE 1 + HeaderSize + 2

\* How wide it is: u32 in version 1, u16 in version 2.
CountSize(version) == IF version = 1 THEN 4 ELSE 2

Stage(op) ==
    CASE op = "start" -> 0
      [] op = "write_le" -> 1
      [] op = "version" -> 2
      [] op = "count" -> 3
      [] op = "cut" -> 4
      [] OTHER -> 5

ReadInit ==
    /\ codec = [op |-> "start"]
    /\ sponge = Idle
    /\ call = Idle
    /\ before = Idle
    /\ hasher = Idle
    /\ circuit = Idle

WriteLe(certificate) ==
    /\ codec.op = "start"
    /\ write_le(certificate).ok
    /\ codec' = [op |-> "write_le", certificate |-> certificate,
                 bytes |-> write_le(certificate).value,
                 altered |-> FALSE, read |-> None]
    /\ UNCHANGED << sponge, call, before, hasher, circuit >>

SetVersion(version) ==
    /\ Stage(codec.op) \in 1 .. 1
    /\ version # codec.bytes[1]
    /\ codec' = [codec EXCEPT !.op = "version", !.altered = TRUE,
                              !.bytes[1] = version]
    /\ UNCHANGED << sponge, call, before, hasher, circuit >>

SetCount(count) ==
    /\ Stage(codec.op) \in 1 .. 2
    /\ LET version == codec.bytes[1]
           last == CountEnd(version)
           first == last - CountSize(version) + 1
           field == to_bytes_le(count, CountSize(version))
       IN /\ Len(codec.bytes) >= last
          /\ field # SubSeq(codec.bytes, first, last)
          /\ codec' = [codec EXCEPT
                         !.op = "count", !.altered = TRUE,
                         !.bytes = SubSeq(codec.bytes, 1, first - 1) \o field
                                     \o SubSeq(codec.bytes, last + 1, Len(codec.bytes))]
    /\ UNCHANGED << sponge, call, before, hasher, circuit >>

Cut(length) ==
    /\ Stage(codec.op) \in 1 .. 3
    /\ length < Len(codec.bytes)
    /\ codec' = [codec EXCEPT !.op = "cut", !.altered = TRUE,
                              !.bytes = SubSeq(codec.bytes, 1, length)]
    /\ UNCHANGED << sponge, call, before, hasher, circuit >>

ReadBytes ==
    /\ Stage(codec.op) \in 1 .. 4
    /\ codec' = [codec EXCEPT !.op = "read_le", !.read = read_le(codec.bytes)]
    /\ UNCHANGED << sponge, call, before, hasher, circuit >>

ReadNext ==
    \/ \E certificate \in sample_batch_certificates : WriteLe(certificate)
    \/ \E version \in Versions : SetVersion(version)
    \/ \E count \in WrittenCounts : SetCount(count)
    \/ \E length \in 0 .. MaxLength : Cut(length)
    \/ ReadBytes

SpecRead == ReadInit /\ [][ReadNext]_vars

(***************************************************************************)
(* Properties.  Each one speaks of the latest call: `before` is the sponge *)
(* it found, `call` its argument, `sponge` what it left.                   *)
(***************************************************************************)

\* What a caller can observe of a sponge between calls: state and mode.
Core(self) == [state |-> self.state, mode |-> self.mode]

\* The sponge after absorbing the pieces in order, one absorb call each.
RECURSIVE AbsorbPieces(_, _)
AbsorbPieces(self, pieces) ==
    IF Len(pieces) = 0 THEN self
    ELSE AbsorbPieces(absorb(Entering(self), pieces[1]), Tail(pieces))

\* Every way to cut s into k consecutive pieces (pieces may be empty).
RECURSIVE Splits(_, _)
Splits(s, k) ==
    IF k <= 1 THEN { << s >> }
    ELSE UNION { { << SubSeq(s, 1, c) >> \o rest :
                     rest \in Splits(SubSeq(s, c + 1, Len(s)), k - 1) } :
                 c \in 0 .. Len(s) }

\* The number of permutations a trace starts with, and the event after them.
IsPermute(e) == e = << "permute" >>
RECURSIVE LeadingPermutes(_)
LeadingPermutes(t) ==
    IF Len(t) = 0 \/ ~IsPermute(t[1]) THEN 0 ELSE 1 + LeadingPermutes(Tail(t))
FirstData(t) == t[LeadingPermutes(t) + 1]

NonEmptyAbsorb == call.op = "absorb" /\ Len(call.input) > 0
NonEmptySqueeze == call.op = "squeeze" /\ call.num_elements > 0

\* C1: chunk-invariance of absorb.  Whatever sponge an absorb call finds and
\* whatever its input, absorbing the input cut into MaxPieces consecutive
\* pieces (empty ones allowed), one call per piece, ends in the same state
\* and the same mode as the single call did.
C1_ChunkInvariance ==
    call.op = "absorb" =>
        \A pieces \in Splits(call.input, MaxPieces) :
            Core(AbsorbPieces(before, pieces)) = Core(sponge)

\* An absorb of at least three elements that started in the middle of the
\* rate region, so that the single call crossed a permutation boundary.
C1_Witness ==
    /\ call.op = "absorb"
    /\ Len(call.input) >= 3
    /\ before.mode = Absorbing(1)
    /\ sponge.mode = Absorbing(RATE)

\* C2: squeeze composability.  For every sponge a squeeze(n) call finds and
\* every a + b = n, squeeze(a) followed by squeeze(b) returns outputs whose
\* concatenation is the output of the single call, and ends in the same
\* state and mode.
C2_SqueezeComposable ==
    call.op = "squeeze" =>
        \A a \in 0 .. call.num_elements :
            LET one == squeeze_field_elements(before, a)
                two == squeeze_field_elements(Entering(one), call.num_elements - a)
            IN /\ one.output \o two.output = sponge.output
               /\ Core(two) = Core(sponge)

\* A squeeze of at least three elements that started inside the rate region.
C2_Witness ==
    /\ call.op = "squeeze"
    /\ call.num_elements >= 3
    /\ before.mode = Squeezing(1)
    /\ Len(sponge.output) = call.num_elements

\* C3: a non-empty absorb that finds the mode Squeezing{k} runs exactly one
\* permutation before its first addition, makes that addition at rate
\* offset 0, and does the same whatever k in 0 .. RATE is.
C3_AbsorbAfterSqueeze ==
    (NonEmptyAbsorb /\ before.mode.tag = "Squeezing") =>
        /\ LeadingPermutes(sponge.trace) = 1
        /\ FirstData(sponge.trace) = << "add", 0 >>
        /\ \A k \in 0 .. RATE :
              absorb([before EXCEPT !.mode = Squeezing(k)], call.input) = sponge

\* A non-empty absorb that followed a squeeze which had stopped inside the
\* rate region.
C3_Witness ==
    /\ NonEmptyAbsorb
    /\ before.mode = Squeezing(1)
    /\ sponge.trace[1] = << "permute" >>

\* C4: squeeze(n), n > 0, that finds the mode Absorbing{k} runs exactly one
\* permutation before its first copy, makes that copy at rate offset 0, and
\* does the same whatever k in 0 .. RATE is; and no copy is ever made from
\* a state that took input since its last permutation.
C4_SqueezeAfterAbsorb ==
    /\ ~sponge.stale
    /\ (NonEmptySqueeze /\ before.mode.tag = "Absorbing") =>
          /\ LeadingPermutes(sponge.trace) = 1
          /\ FirstData(sponge.trace) = << "copy", 0 >>
          /\ \A k \in 0 .. RATE :
                squeeze_field_elements([before EXCEPT !.mode = Absorbing(k)],
                                       call.num_elements) = sponge

\* A squeeze that followed an absorb which had left the rate region partly
\* filled.
C4_Witness ==
    /\ NonEmptySqueeze
    /\ before.mode = Absorbing(1)
    /\ before.pending
    /\ sponge.trace[1] = << "permute" >>
    /\ Len(sponge.output) > 0

\* C5: absorb of the empty sequence and squeeze(0) run no permutation and
\* leave the mode and every state element as they were; squeeze(0) returns
\* the empty sequence.
C5_NoOpBoundaries ==
    ((call.op = "absorb" /\ Len(call.input) = 0)
       \/ (call.op = "squeeze" /\ call.num_elements = 0)) =>
        /\ sponge.trace = << >>
        /\ sponge.mode = before.mode
        /\ sponge.state = before.state
        /\ sponge.output = << >>

\* An empty absorb made in squeezing mode on a state that is not all zero.
C5_Witness ==
    /\ call.op = "absorb"
    /\ Len(call.input) = 0
    /\ before.mode.tag = "Squeezing"
    /\ sponge.mode.tag = "Squeezing"
    /\ sponge.state # StateDefault

\* C6: exact fill.  An absorb of exactly RATE elements that finds the mode
\* Absorbing{0} adds them to the whole rate region, runs no permutation and
\* leaves the mode Absorbing{RATE}; and a call that finds Absorbing{RATE},
\* whether an absorb or a squeeze with data to process, starts with a
\* permutation.
C6_ExactFill ==
    /\ (call.op = "absorb" /\ Len(call.input) = RATE /\ before.mode = Absorbing(0)) =>
          /\ sponge.trace = [i \in 1 .. RATE |-> << "add", i - 1 >>]
          /\ sponge.mode = Absorbing(RATE)
          /\ sponge.state.rate_state =
                 [i \in 1 .. RATE |-> FAdd(before.state.rate_state[i], call.input[i])]
          /\ sponge.state.capacity_state = before.state.capacity_state
    /\ ((NonEmptyAbsorb \/ NonEmptySqueeze) /\ before.mode = Absorbing(RATE)) =>
          IsPermute(sponge.trace[1])

\* The rate region was just filled exactly, by a call that ran no permutation.
C6_Witness ==
    /\ call.op = "absorb"
    /\ Len(call.input) = RATE
    /\ before.mode = Absorbing(0)
    /\ sponge.mode = Absorbing(RATE)
    /\ sponge.state.rate_state = call.input
    /\ sponge.state # StateDefault

\* C7: staying in the same category.  A non-empty absorb that finds
\* Absorbing{o} runs a permutation before its first addition exactly when
\* o = RATE, and then adds at offset 0 (otherwise at o); squeeze(n > 0) that
\* finds Squeezing{o} runs a permutation before its first copy exactly when
\* o = RATE, and then copies from offset 0 (otherwise from o).
C7_SameCategory ==
    LET o == before.mode.index
    IN /\ (NonEmptyAbsorb /\ before.mode.tag = "Absorbing") =>
             /\ LeadingPermutes(sponge.trace) = (IF o = RATE THEN 1 ELSE 0)
             /\ FirstData(sponge.trace) = << "add", IF o = RATE THEN 0 ELSE o >>
       /\ (NonEmptySqueeze /\ before.mode.tag = "Squeezing") =>
             /\ LeadingPermutes(sponge.trace) = (IF o = RATE THEN 1 ELSE 0)
             /\ FirstData(sponge.trace) = << "copy", IF o = RATE THEN 0 ELSE o >>

\* A squeeze that found the rate region exhausted and permuted first.
C7_Witness ==
    /\ NonEmptySqueeze
    /\ before.mode = Squeezing(RATE)
    /\ sponge.trace[1] = << "permute" >>
    /\ sponge.trace[2] = << "copy", 0 >>

\* C8: the mode invariant.  A new sponge is in Absorbing{0}; after any calls
\* the mode is Absorbing{k} or Squeezing{k} with 0 <= k <= RATE, every
\* addition and copy was made inside the rate region, and no call aborted.
C8_ModeInvariant ==
    /\ call.op = "with_parameters" => sponge.mode = Absorbing(0)
    /\ sponge.mode.tag \in {"Absorbing", "Squeezing"}
    /\ sponge.mode.index \in 0 .. RATE
    /\ \A j \in 1 .. Len(sponge.trace) :
          IsPermute(sponge.trace[j]) \/ sponge.trace[j][2] \in 0 .. (RATE - 1)
    /\ ~sponge.aborted

\* A long absorb that followed a squeeze and ended on a full rate region.
C8_Witness ==
    /\ call.op = "absorb"
    /\ before.mode.tag = "Squeezing"
    /\ Len(call.input) > RATE
    /\ sponge.mode = Absorbing(RATE)

\* The state a squeeze reads its first element from, and the offset it
\* reads at: the permuted state at 0 after an absorb or on an exhausted
\* rate region, else the state as it is at the squeeze offset.
ReadStart(self) ==
    IF self.mode.tag = "Absorbing" \/ self.mode.index = RATE
    THEN [st |-> PermutationTable[self.parameters][self.state], at |-> 0]
    ELSE [st |-> self.state, at |-> self.mode.index]

RECURSIVE PermutedTimes(_, _, _)
PermutedTimes(parameters, st, k) ==
    IF k = 0 THEN st
    ELSE PermutedTimes(parameters, PermutationTable[parameters][st], k - 1)

\* The i-th element (from 0) a squeeze on `self` is to return.
Squeezed(self, i) ==
    LET start == ReadStart(self)
        pos == start.at + i
        st == PermutedTimes(self.parameters, start.st, pos \div RATE)
    IN st.rate_state[(pos % RATE) + 1]

\* C9: squeeze(n) returns exactly n elements, for n <= INLINE_SIZE as for
\* n > INLINE_SIZE, and the i-th of them is the rate element read at the
\* i-th position of the squeeze (never a zero left over from the buffer).
C9_SqueezeLength ==
    call.op = "squeeze" =>
        /\ Len(sponge.output) = call.num_elements
        /\ Cardinality({j \in 1 .. Len(sponge.trace) : ~IsPermute(sponge.trace[j])})
              = call.num_elements
        /\ \A i \in 0 .. (call.num_elements - 1) :
              sponge.output[i + 1] = Squeezed(before, i)

\* A squeeze of more elements than the inline buffer holds.
C9_Witness ==
    /\ call.op = "squeeze"
    /\ call.num_elements > INLINE_SIZE
    /\ Len(sponge.output) = call.num_elements
    /\ \E i \in 1 .. Len(sponge.output) : sponge.output[i] # zero

(***************************************************************************)
(* The permutation, round by round (SpecPermute).                          *)
(***************************************************************************)

\* The round range the documentation names partial: the contiguous middle
\* block that starts at floor(full_rounds / 2).
InPartialBlock(parameters, i) ==
    /\ (parameters.full_rounds \div 2) <= i
    /\ i < (parameters.full_rounds \div 2) + parameters.partial_rounds

\* The round the loop has just run.
RoundRun == call.i - 1

\* C11: round i of a permutation raises only state element 0 to the power
\* alpha iff floor(full_rounds/2) <= i < floor(full_rounds/2) + partial_rounds,
\* and raises every element otherwise; with 8 full and 31 partial rounds,
\* rounds 0..3 and 35..38 are full and rounds 4..34 are partial.
C11_RoundSplit ==
    call.op = "round" =>
        LET parameters == sponge.parameters
            partial == InPartialBlock(parameters, RoundRun)
            entering == StateIter(call.after_ark)
            leaving == StateIter(call.after_s_box)
        IN /\ call.is_full_round = ~partial
           /\ \A j \in 1 .. Width :
                leaving[j] = IF partial /\ j # 1 THEN entering[j]
                             ELSE pow(entering[j], parameters.alpha)
           /\ (parameters.full_rounds = 8 /\ parameters.partial_rounds = 31) =>
                (partial <=> RoundRun \in 4 .. 34)

\* A partial round of the 8/31 schedule that leaves alone an element the
\* power would have changed, and a full round of it that changes one.
C11_Witness ==
    /\ call.op = "round"
    /\ sponge.parameters = WideParameters
    /\ RoundRun = 34
    /\ ~call.is_full_round
    /\ call.after_s_box.rate_state[1] = call.after_ark.rate_state[1]
    /\ pow(call.after_ark.rate_state[1], 3) # call.after_ark.rate_state[1]
    /\ call.after_s_box.capacity_state[1] # call.after_ark.capacity_state[1]

\* Sum over k of row[k] * xs[k], k running over the whole width.
RECURSIVE RowSum(_, _, _)
RowSum(row, xs, k) ==
    IF k = 0 THEN 0 ELSE (RowSum(row, xs, k - 1) + row[k] * xs[k]) % Modulus

\* The matrix product of the mixing matrix with a flattened state.
MatrixProduct(parameters, xs) ==
    [j \in 1 .. Width |-> RowSum(parameters.mds[j], xs, Width)]

\* C19: a permutation runs exactly full_rounds + partial_rounds rounds in
\* increasing order of i; round i adds the round-i constants to every state
\* element, then applies the nonlinear layer to that, then the linear layer
\* to that; the sponge keeps its state until the last round is over and its
\* parameters throughout.
C19_RoundStructure ==
    LET parameters == before.parameters
        total == parameters.full_rounds + parameters.partial_rounds
    IN /\ call.op = "round" =>
            LET entered == StateIter(call.entered)
                keyed == StateIter(call.after_ark)
                raised == StateIter(call.after_s_box)
            IN /\ RoundRun \in 0 .. (total - 1)
               /\ \A j \in 1 .. Width :
                    keyed[j] = (entered[j] + parameters.ark[RoundRun + 1][j]) % Modulus
               /\ raised[1] = pow(keyed[1], parameters.alpha)
               /\ \A j \in 2 .. Width :
                    raised[j] \in {keyed[j], pow(keyed[j], parameters.alpha)}
               /\ StateIter(call.state) = MatrixProduct(parameters, raised)
               /\ sponge = before
       /\ call.op = "permute" => (call.i = 0 /\ sponge = before)
       /\ call.op = "permuted" =>
            /\ call.i = total
            /\ sponge.state = call.state
            /\ sponge.parameters = parameters
            /\ sponge.mode = before.mode

\* A finished permutation on the 8/31 schedule that changed the state, its
\* last round having changed it in each of the three layers.
C19_Witness ==
    /\ call.op = "permuted"
    /\ before.parameters = WideParameters
    /\ call.i = 39
    /\ sponge.state # before.state
    /\ call.after_ark # call.entered
    /\ call.after_s_box # call.after_ark
    /\ call.state # call.after_s_box

\* C20: the linear layer replaces the state by new[j] = sum over k of
\* matrix[j][k] * state[k], the indices running over the capacity region
\* first and the rate region after it, every new[j] being computed from the
\* state the layer started with.
C20_LinearLayer ==
    call.op = "round" =>
        LET old == call.after_s_box.capacity_state \o call.after_s_box.rate_state
            new == call.state.capacity_state \o call.state.rate_state
        IN /\ Len(new) = Width
           /\ \A j \in 1 .. Width :
                new[j] = RowSum(sponge.parameters.mds[j], old, Width)

\* A round under a matrix that is not the identity, on a state whose
\* elements are all different, and whose rate region the layer changed.
C20_Witness ==
    /\ call.op = "round"
    /\ sponge.parameters = MixedParameters
    /\ Cardinality({call.after_s_box.capacity_state[1],
                    call.after_s_box.rate_state[1],
                    call.after_s_box.rate_state[2]}) = 3
    /\ call.state.rate_state # call.after_s_box.rate_state
    /\ call.state.capacity_state # call.after_s_box.capacity_state

(***************************************************************************)
(* The regions of the state (Spec).                                        *)
(***************************************************************************)

\* The events of a call replayed on a state: a permutation maps the whole
\* state, an addition adds the next unused input element to one rate
\* element, a copy appends one rate element to the output.
RECURSIVE Replay(_, _, _, _)
Replay(parameters, acc, events, input) ==
    IF Len(events) = 0 THEN acc
    ELSE LET e == Head(events)
             next ==
               IF e[1] = "permute"
               THEN [acc EXCEPT !.state = PermutationTable[parameters][acc.state]]
               ELSE IF e[1] = "add"
               THEN [acc EXCEPT
                       !.state.rate_state[e[2] + 1] =
                           (acc.state.rate_state[e[2] + 1] + input[acc.used + 1]) % Modulus,
                       !.used = acc.used + 1]
               ELSE [acc EXCEPT
                       !.output = Append(acc.output, acc.state.rate_state[e[2] + 1])]
         IN Replay(parameters, next, Tail(events), input)

\* C14: over any sequence of calls, absorb adds its input only to elements
\* of the rate region and squeeze copies its output only from elements of
\* the rate region; the capacity region changes only through a permutation.
C14_CapacityHidden ==
    call.op \in {"absorb", "squeeze"} =>
        LET replayed == Replay(before.parameters,
                               [state |-> before.state, output |-> << >>, used |-> 0],
                               sponge.trace, call.input)
        IN /\ \A n \in 1 .. Len(sponge.trace) :
                ~IsPermute(sponge.trace[n]) => sponge.trace[n][2] \in 0 .. (RATE - 1)
           /\ replayed.state = sponge.state
           /\ replayed.used = Len(call.input)
           /\ replayed.output = sponge.output
           /\ (\A n \in 1 .. Len(sponge.trace) : ~IsPermute(sponge.trace[n]))
                => sponge.state.capacity_state = before.state.capacity_state

\* An absorb that wrote to the rate region of a sponge whose capacity was not
\* zero and did not permute, and a squeeze that read from such a sponge.
C14_Witness ==
    /\ before.state.capacity_state[1] # zero
    /\ \A n \in 1 .. Len(sponge.trace) : ~IsPermute(sponge.trace[n])
    /\ \/ call.op = "absorb" /\ sponge.state.rate_state # before.state.rate_state
       \/ call.op = "squeeze" /\ Len(sponge.output) = RATE

(***************************************************************************)
(* The hasher and the default-parameter constructors (SpecHash).           *)
(***************************************************************************)

\* The number of permutations among the events of a trace.
RECURSIVE PermuteCount(_)
PermuteCount(t) ==
    IF Len(t) = 0 THEN 0
    ELSE (IF IsPermute(Head(t)) THEN 1 ELSE 0) + PermuteCount(Tail(t))

Evaluated == hasher.hash # None /\ hasher.last # None

\* C12: with exponent 5, zero round constants and the identity matrix,
\* evaluate([1, 2]) is the first rate element of the state that exactly one
\* permutation makes of [capacity: 0 | rate: 1, 2], on every run.
C12_GoldenVector ==
    (Evaluated /\ hasher.hash.parameters = GoldenParameters
               /\ hasher.last.input = <<1, 2>>) =>
        LET loaded == [capacity_state |-> <<0>>, rate_state |-> <<1, 2>>]
            permuted == permute_rounds(GoldenParameters, loaded, 0)
        IN /\ hasher.last.output = permuted.rate_state[1]
           /\ PermuteCount(hasher.last.dropped.trace) = 1
           /\ hasher.last.dropped.state = permuted

\* The golden call made as the second call on its hasher, after a call with
\* another input.
C12_Witness ==
    /\ Evaluated
    /\ hasher.hash.parameters = GoldenParameters
    /\ hasher.last.input = <<1, 2>>
    /\ hasher.earlier # None
    /\ ~hasher.earlier.same_input

\* C13: evaluate(inputs) is the first element squeeze(1) returns on a fresh
\* sponge of the hasher's parameters (zero state, Absorbing{0}) after one
\* absorb(inputs); nothing is kept between calls, so the result is the same
\* whatever calls were made on the hasher before.
C13_EvaluateIsSponge ==
    Evaluated =>
        LET fresh == [parameters |-> hasher.hash.parameters,
                      state |-> [capacity_state |-> [i \in 1 .. 1 |-> 0],
                                 rate_state |-> [i \in 1 .. RATE |-> 0]],
                      mode |-> Absorbing(0)]
            built == with_parameters(hasher.hash.parameters)
            squeezed == squeeze_field_elements(
                            Entering(absorb(built, hasher.last.input)), 1)
        IN /\ Core(built) = [state |-> fresh.state, mode |-> fresh.mode]
           /\ built.parameters = fresh.parameters
           /\ Len(squeezed.output) = 1
           /\ hasher.last.output = squeezed.output[1]
           /\ hasher.hash \in [parameters : AllParameterSets]

\* A second call on a hasher with a non-trivial table, with an input longer
\* than the rate region and different from the input of the call before.
C13_Witness ==
    /\ Evaluated
    /\ hasher.hash.parameters = MixedParameters
    /\ Len(hasher.last.input) > RATE
    /\ hasher.earlier # None
    /\ ~hasher.earlier.same_input
    /\ hasher.last.output # 0

\* C15: a constructor that asks the provider for a table the provider does
\* not have fails with the configuration error and produces no sponge, no
\* hasher and no table; nothing else fails: absorb, squeeze and evaluate
\* complete on every input.
C15_SupplyFailure ==
    /\ hasher.request # None =>
          IF default_poseidon_parameters(hasher.request[1], hasher.request[2]).tag = "Err"
          THEN /\ hasher.panic = ConfigurationError
               /\ hasher.hash = None
               /\ hasher.sampled = None
               /\ sponge = Idle
          ELSE /\ hasher.panic = None
               /\ hasher.op = "setup" => hasher.hash # None
               /\ hasher.op = "sample_parameters" => hasher.sampled # None
               /\ hasher.op = "with_default_parameters" => sponge # Idle
    /\ hasher.request = None => hasher.panic = None
    /\ sponge # Idle => ~sponge.aborted
    /\ Evaluated => (~hasher.last.dropped.aborted /\ hasher.last.output \in F)

\* A setup that found no table.
C15_Witness ==
    /\ hasher.op = "setup"
    /\ hasher.panic = ConfigurationError
    /\ hasher.hash = None

(***************************************************************************)
(* Wrapped addition (SpecInt).                                             *)
(***************************************************************************)
Added == circuit.op = "add_wrapped"

\* The value of type I congruent to n modulo 2^BITS.
Reduced(I, n) ==
    CHOOSE v \in MIN(I) .. MAX(I) : (v - n) % Pow2(I.BITS) = 0

\* C16: for every integer type, all values a and b and every pair of modes,
\* a.add_wrapped(b) ejects to a + b reduced modulo 2^BITS in two's
\* complement, which is the native wrapping_add; MAX + 1 gives MIN, for a
\* signed type MIN + (-1) gives MAX, and b.add_wrapped(a) ejects to the same.
C16_WrappedAddition ==
    Added =>
        LET I == circuit.type
            result == eject_value(circuit.candidate)
        IN /\ result = Reduced(I, circuit.first + circuit.second)
           /\ result = wrapping_add(I, circuit.first, circuit.second)
           /\ Len(circuit.candidate.bits_le) = I.BITS
           /\ (circuit.first = MAX(I) /\ circuit.second = 1) => result = MIN(I)
           /\ (I.signed /\ circuit.first = MIN(I) /\ circuit.second = -1) => result = MAX(I)
           /\ eject_value(add_wrapped(circuit.b, circuit.a)) = result

\* MIN + (-1) of a signed type, one operand public and the other constant.
C16_Witness ==
    /\ Added
    /\ circuit.type.signed
    /\ circuit.first = MIN(circuit.type)
    /\ circuit.second = -1
    /\ circuit.mode_a = "Public"
    /\ circuit.mode_b = "Constant"
    /\ eject_value(circuit.candidate) = MAX(circuit.type)

\* C17: the result of a.add_wrapped(b) is Constant iff a and b both are, and
\* Private for every other pair of modes; output_mode declares that mode.
C17_OutputMode ==
    Added =>
        LET produced == eject_mode(circuit.candidate)
            both == circuit.mode_a = "Constant" /\ circuit.mode_b = "Constant"
        IN /\ produced = (IF both THEN "Constant" ELSE "Private")
           /\ output_mode(<< circuit.mode_a, circuit.mode_b >>) = produced
           /\ \A k \in 1 .. Len(circuit.candidate.bits_le) :
                circuit.candidate.bits_le[k].mode = produced

\* A constant added to a public operand: the result is private.
C17_Witness ==
    /\ Added
    /\ circuit.mode_a = "Constant"
    /\ circuit.mode_b = "Public"
    /\ eject_mode(circuit.candidate) = "Private"

(***************************************************************************)
(* The bytes of a batch certificate (SpecBytes).                           *)
(***************************************************************************)

\* C18: for every valid batch certificate c of either version, read_le on
\* the bytes write_le(c) wrote succeeds and returns a certificate equal to
\* c: same version, same batch header, same signatures.
C18_BytesRoundTrip ==
    /\ codec.op = "to_bytes_le" => codec.expected_bytes.ok
    /\ codec.op = "read_le" =>
          /\ codec.read.ok
          /\ codec.read.value = codec.expected
          /\ codec.read.value.version = codec.expected.version
          /\ codec.read.value.batch_header = codec.expected.batch_header
          /\ codec.read.value.signatures = codec.expected.signatures

\* A V1 certificate with MAX_SIGNATURES signatures, one of them with a
\* negative timestamp and one wider than a byte, read back.
C18_Witness ==
    /\ codec.op = "read_le"
    /\ codec.expected.version = 1
    /\ Len(codec.expected.signatures) = MAX_SIGNATURES
    /\ \E k \in 1 .. MAX_SIGNATURES : codec.expected.signatures[k][2] < 0
    /\ \E k \in 1 .. MAX_SIGNATURES : codec.expected.signatures[k][1] > 255
    /\ codec.read.ok
    /\ codec.read.value = codec.expected

(***************************************************************************)
(* Permutation counts, offsets and frames of one call (Spec).              *)
(***************************************************************************)

\* ceil(a / b) for b > 0.
CeilDiv(a, b) == (a + b - 1) \div b

\* The offset a call starts from: the index of the mode when the call
\* continues in its own category, rate when it changes category.
StartOffset(tag) == IF before.mode.tag = tag THEN before.mode.index ELSE RATE

\* The final index after m elements from offset o.
EndOffset(o, m) == ((o + m - 1) % RATE) + 1

\* C21: a non-empty absorb of n elements called in Absorbing{o} runs exactly
\* ceil((o + n) / rate) - 1 permutations, ceil(n / rate) when called in a
\* Squeezing mode; none comes after the last chunk; the call ends in
\* Absorbing{((o + n - 1) mod rate) + 1}, o being rate for a Squeezing start.
C21_AbsorbCount ==
    NonEmptyAbsorb =>
        LET n == Len(call.input)
            o == StartOffset("Absorbing")
        IN /\ PermuteCount(sponge.trace) = CeilDiv(o + n, RATE) - 1
           /\ before.mode.tag = "Squeezing" =>
                PermuteCount(sponge.trace) = CeilDiv(n, RATE)
           /\ ~IsPermute(sponge.trace[Len(sponge.trace)])
           /\ sponge.mode = Absorbing(EndOffset(o, n))

\* An absorb from the middle of the rate region that needed two
\* permutations and ended in the middle of the rate region.
C21_Witness ==
    /\ NonEmptyAbsorb
    /\ before.mode = Absorbing(1)
    /\ PermuteCount(sponge.trace) = 2
    /\ sponge.mode = Absorbing(1)

\* The copies of a trace, in order.
Copies(t) == SelectSeq(t, LAMBDA e : e[1] = "copy")

\* C22: squeeze(n), n > 0, called in Squeezing{o} runs exactly
\* ceil((o + n) / rate) - 1 permutations, ceil(n / rate) when called in an
\* Absorbing mode; none comes after the last chunk; the call ends in
\* Squeezing{((o + n - 1) mod rate) + 1}, o being rate for an Absorbing
\* start; and the i-th element returned is the rate element at the read
\* position of the i-th copy, as the state was then.
C22_SqueezeCount ==
    NonEmptySqueeze =>
        LET n == call.num_elements
            o == StartOffset("Squeezing")
            copies == Copies(sponge.trace)
        IN /\ PermuteCount(sponge.trace) = CeilDiv(o + n, RATE) - 1
           /\ before.mode.tag = "Absorbing" =>
                PermuteCount(sponge.trace) = CeilDiv(n, RATE)
           /\ ~IsPermute(sponge.trace[Len(sponge.trace)])
           /\ sponge.mode = Squeezing(EndOffset(o, n))
           /\ Len(copies) = n
           /\ Len(sponge.output) = n
           /\ \A i \in 1 .. n :
                /\ copies[i][2] = (o + i - 1) % RATE
                /\ sponge.output[i] =
                     PermutedTimes(before.parameters, before.state,
                                   CeilDiv(o + i, RATE) - 1).rate_state[copies[i][2] + 1]

\* A squeeze from the middle of the rate region that crossed a permutation
\* and returned elements that are not all the same.
C22_Witness ==
    /\ NonEmptySqueeze
    /\ before.mode = Squeezing(1)
    /\ call.num_elements = RATE + 1
    /\ PermuteCount(sponge.trace) = 1
    /\ sponge.output[1] # sponge.output[2]
    /\ sponge.output[2] # sponge.output[3]

\* C23: a non-empty absorb of n elements called in Absorbing{o} with
\* o + n <= rate runs no permutation; the rate element at o + i becomes its
\* previous value plus input[i]; every other rate element and every
\* capacity element is as it was.
C23_AdditiveFrame ==
    (NonEmptyAbsorb /\ before.mode.tag = "Absorbing"
                    /\ before.mode.index + Len(call.input) <= RATE) =>
        LET n == Len(call.input)
            o == before.mode.index
        IN /\ PermuteCount(sponge.trace) = 0
           /\ \A j \in 1 .. RATE :
                sponge.state.rate_state[j] =
                    IF o < j /\ j <= o + n
                    THEN (before.state.rate_state[j] + call.input[j - o]) % Modulus
                    ELSE before.state.rate_state[j]
           /\ sponge.state.capacity_state = before.state.capacity_state

\* A non-zero element added onto a non-zero rate element, in the second
\* slot, the first slot and the capacity being non-zero as well.
C23_Witness ==
    /\ NonEmptyAbsorb
    /\ before.mode = Absorbing(1)
    /\ call.input = << 1 >>
    /\ before.state.rate_state[2] # 0
    /\ before.state.rate_state[1] # 0
    /\ before.state.capacity_state[1] # 0
    /\ sponge.state.rate_state[2] = (before.state.rate_state[2] + 1) % Modulus

(***************************************************************************)
(* Addressing of the state (SpecIndex).                                    *)
(***************************************************************************)

\* C24: index i of a state addresses capacity element i when i < capacity
\* and rate element i - capacity when capacity <= i < capacity + rate, for
\* reads and for writes; an index from capacity + rate on aborts and gives
\* no element; the nonlinear layer of a partial round, which acts on index
\* 0, acts on the first capacity element.
C24_StateAddressing ==
    /\ call.op = "index" =>
          LET i == call.index
          IN IF i < CAPACITY
             THEN ~call.result.panicked
                  /\ call.result.value = before.state.capacity_state[i + 1]
             ELSE IF i < CAPACITY + RATE
             THEN ~call.result.panicked
                  /\ call.result.value = before.state.rate_state[i - CAPACITY + 1]
             ELSE call.result = [panicked |-> TRUE]
    /\ call.op = "index_mut" =>
          LET i == call.index
              old == before.state.capacity_state \o before.state.rate_state
              new == sponge.state.capacity_state \o sponge.state.rate_state
          IN IF i < CAPACITY + RATE
             THEN /\ ~call.result.panicked
                  /\ new = [old EXCEPT ![i + 1] = call.value]
                  /\ i < CAPACITY => sponge.state.capacity_state[i + 1] = call.value
                  /\ i >= CAPACITY => sponge.state.rate_state[i - CAPACITY + 1] = call.value
             ELSE call.result.panicked /\ sponge.state = before.state
    /\ call.op = "apply_s_box" =>
          /\ sponge.state.capacity_state[1] =
                pow(before.state.capacity_state[1], sponge.parameters.alpha)
          /\ sponge.state.rate_state = before.state.rate_state

\* A write to the last rate element that changed it, on a state whose
\* elements are all different.
C24_Witness ==
    /\ call.op = "index_mut"
    /\ call.index = CAPACITY + RATE - 1
    /\ sponge.state.rate_state[RATE] # before.state.rate_state[RATE]
    /\ sponge.state.rate_state[RATE] = call.value
    /\ Cardinality({before.state.capacity_state[1], before.state.rate_state[1],
                    before.state.rate_state[2]}) = 3

(***************************************************************************)
(* Sponges sharing their parameters (SpecShared).                          *)
(***************************************************************************)

\* A sponge made from `parameters` and given the calls of `calls` with no
\* other sponge around: the sponge at the end and the outputs it returned.
RECURSIVE Alone(_, _)
Alone(acc, calls) ==
    IF Len(calls) = 0 THEN acc
    ELSE LET c == Head(calls)
             done == IF c.op = "absorb"
                     THEN absorb(Entering(acc.self), c.input)
                     ELSE squeeze_field_elements(Entering(acc.self), c.num_elements)
         IN Alone([self |-> done,
                   outputs |-> IF c.op = "absorb" THEN acc.outputs
                               ELSE Append(acc.outputs, done.output)],
                  Tail(calls))

\* C25: with two sponges made from the same shared parameters and driven by
\* independent call sequences, after every interleaving of the calls each
\* sponge has returned the outputs, and has the state and the mode, that
\* its own call sequence gives a sponge running alone, and the shared
\* parameters are as they were handed over.
C25_SharedParameters ==
    \A k \in Owners :
        LET alone == Alone([self |-> with_parameters(before.parameters),
                            outputs |-> << >>], call.calls[k])
        IN /\ call.outputs[k] = alone.outputs
           /\ sponge[k].state = alone.self.state
           /\ sponge[k].mode = alone.self.mode
           /\ sponge[k].parameters = before.parameters

\* Both sponges have permuted and squeezed, the calls of one lying between
\* the calls of the other, and they are in different states.
C25_Witness ==
    /\ call.op = "squeeze"
    /\ call.who = 1
    /\ Len(call.calls[1]) = 2 /\ call.calls[1][1].op = "absorb"
    /\ Len(call.calls[2]) = 2 /\ call.calls[2][2].op = "squeeze"
    /\ Len(call.calls[2][1].input) = 3
    /\ sponge[1].state # sponge[2].state
    /\ call.outputs[1] # call.outputs[2]

(***************************************************************************)
(* Versions and signature counts of certificate bytes (SpecRead).          *)
(***************************************************************************)

\* The reads of a kind in a trace.
Reads(trace, kinds) == SelectSeq(trace, LAMBDA e : e \in kinds)

\* The count field of bytes that are long enough to hold it.
EncodedCount(bytes) ==
    from_bytes_le(SubSeq(bytes, CountEnd(bytes[1]) - CountSize(bytes[1]) + 1,
                         CountEnd(bytes[1])))

HasCount(bytes) ==
    /\ Len(bytes) >= 1
    /\ bytes[1] \in {1, 2}
    /\ Len(bytes) >= CountEnd(bytes[1])

\* The bytes of the k-th signature after the count field.
SignatureSlot(bytes, k) ==
    LET stride == IF bytes[1] = 1 THEN SignatureSize + 8 ELSE SignatureSize
        first == CountEnd(bytes[1]) + (k - 1) * stride + 1
    IN SubSeq(bytes, first, first + SignatureSize - 1)

\* C26: read_le returns the error "Invalid batch certificate version" when
\* the first byte is neither 1 nor 2, having read no field but the version;
\* write_le emits 1 first for a V1 certificate and 2 first for a V2
\* certificate, and read_le reads what it wrote with the layout of that
\* version: the certificate id first and timestamps for V1, the batch
\* header first and one block of signature bytes for V2.
C26_VersionCheck ==
    /\ codec.op = "write_le" => codec.bytes[1] = codec.certificate.version
    /\ (codec.op = "read_le" /\ Len(codec.bytes) >= 1 /\ codec.bytes[1] \notin {1, 2})
          => codec.read = Traced(Err("Invalid batch certificate version"), << "version" >>)
    /\ (codec.op = "read_le" /\ ~codec.altered) =>
          /\ codec.read.ok
          /\ codec.read.value.version = codec.certificate.version
          /\ codec.read.trace[1] = "version"
          /\ IF codec.certificate.version = 1
             THEN /\ codec.read.trace[2] = "certificate_id"
                  /\ Len(Reads(codec.read.trace, {"timestamp"}))
                        = Len(codec.certificate.signatures)
                  /\ Reads(codec.read.trace, {"vec", "read_exact"}) = << >>
             ELSE /\ codec.read.trace[2] = "batch_header"
                  /\ Reads(codec.read.trace, {"certificate_id", "timestamp"}) = << >>
                  /\ Reads(codec.read.trace, {"read_exact"}) = << "read_exact" >>

\* The bytes of a V1 certificate with signatures, the version byte replaced
\* by 3, refused.
C26_Witness ==
    /\ codec.op = "read_le"
    /\ codec.certificate.version = 1
    /\ Len(codec.certificate.signatures) = MAX_SIGNATURES
    /\ Len(codec.bytes) = Len(write_le(codec.certificate).value)
    /\ codec.bytes[1] = 3
    /\ ~codec.read.ok
    /\ codec.read.error = "Invalid batch certificate version"

\* C27: for both versions, when the encoded count exceeds MAX_SIGNATURES
\* read_le returns an error, reads no signature and allocates no storage for
\* signatures, and the error is the one of the count when the fields before
\* it were read; a certificate is returned only when the count is at most
\* MAX_SIGNATURES and that many signatures were read, each one a signature.
C27_CountBound ==
    codec.op = "read_le" =>
        /\ (HasCount(codec.bytes) /\ EncodedCount(codec.bytes) > MAX_SIGNATURES) =>
              /\ ~codec.read.ok
              /\ Reads(codec.read.trace,
                       {"signature", "timestamp", "with_capacity", "vec", "read_exact"})
                    = << >>
              /\ codec.read.trace[Len(codec.read.trace)] = "num_signatures"
                    => codec.read.error = "Number of signatures exceeds the maximum"
        /\ codec.read.ok =>
              /\ HasCount(codec.bytes)
              /\ EncodedCount(codec.bytes) <= MAX_SIGNATURES
              /\ Len(Reads(codec.read.trace, {"signature"})) = EncodedCount(codec.bytes)
              /\ Len(codec.read.value.signatures) <= EncodedCount(codec.bytes)
              /\ \A k \in 1 .. EncodedCount(codec.bytes) :
                    LET slot == SignatureSlot(codec.bytes, k)
                    IN Len(slot) = SignatureSize /\ from_bytes_le(slot) \in Signatures

\* The bytes of a V2 certificate with MAX_SIGNATURES signatures, the count
\* raised by one, refused for the count.
C27_Witness ==
    /\ codec.op = "read_le"
    /\ codec.certificate.version = 2
    /\ Len(codec.certificate.signatures) = MAX_SIGNATURES
    /\ Len(codec.bytes) = Len(write_le(codec.certificate).value)
    /\ codec.bytes[1] = 2
    /\ EncodedCount(codec.bytes) = MAX_SIGNATURES + 1
    /\ ~codec.read.ok
    /\ codec.read.error = "Number of signatures exceeds the maximum"

(***************************************************************************)
(* Modes between calls (Spec).                                             *)
(***************************************************************************)

\* C28: between calls, a sponge whose latest call was a non-empty absorb is
\* in Absorbing{k} with 1 <= k <= rate; one whose latest call was a
\* squeeze of one or more elements is in Squeezing{k} with 1 <= k <= rate;
\* no sponge is in Squeezing{0}; and a sponge is in Absorbing{0} only while
\* it has had neither a non-empty absorb nor a squeeze of one or more
\* elements.
C28_ModeRange ==
    ~sponge.aborted =>
        /\ NonEmptyAbsorb =>
              sponge.mode.tag = "Absorbing" /\ sponge.mode.index \in 1 .. RATE
        /\ NonEmptySqueeze =>
              sponge.mode.tag = "Squeezing" /\ sponge.mode.index \in 1 .. RATE
        /\ sponge.mode # Squeezing(0)
        /\ sponge.mode = Absorbing(0) => ~call.used
        /\ call.used => sponge.mode.index \in 1 .. RATE

\* A squeeze that ended exactly at the end of the rate region, after an
\* absorb that had ended there too.
C28_Witness ==
    /\ NonEmptySqueeze
    /\ ~sponge.aborted
    /\ before.mode = Absorbing(RATE)
    /\ call.num_elements = RATE
    /\ sponge.mode = Squeezing(RATE)

(***************************************************************************)
(* Trailing zeros (SpecHash).                                              *)
(***************************************************************************)

\* The number of blocks of an input: max(1, ceil(|S| / rate)).
Blocks(S) == IF Len(S) = 0 THEN 1 ELSE CeilDiv(Len(S), RATE)

\* C29: there is no padding and no length marker.  When S' is S followed by
\* one or more zeros and has as many blocks as S, evaluate(S') =
\* evaluate(S), and a fresh sponge that absorbed S' is in the state of one
\* that absorbed S, differs from it at most in the offset of its Absorbing
\* mode, and returns the same elements to every squeeze.
C29_TrailingZeros ==
    Evaluated =>
        \A k \in 1 .. RATE :
            LET S == hasher.last.input
                padded == S \o [j \in 1 .. k |-> 0]
                fresh == with_parameters(hasher.hash.parameters)
                short == Entering(absorb(fresh, S))
                long == Entering(absorb(fresh, padded))
            IN Blocks(padded) = Blocks(S) =>
                  /\ evaluate(hasher.hash, padded).output = hasher.last.output
                  /\ Core(evaluate(hasher.hash, padded).dropped)
                        = Core(hasher.last.dropped)
                  /\ long.state = short.state
                  /\ long.mode.tag = "Absorbing" /\ short.mode.tag = "Absorbing"
                  /\ long.mode.index = short.mode.index + k
                  /\ \A n \in 0 .. MaxHashInput :
                        /\ squeeze_field_elements(long, n).output
                              = squeeze_field_elements(short, n).output
                        /\ n > 0 => Core(squeeze_field_elements(long, n))
                                      = Core(squeeze_field_elements(short, n))

\* A hash of three elements, the last one not zero, under a non-trivial
\* table: a zero after it stays within the second block.
C29_Witness ==
    /\ Evaluated
    /\ hasher.hash.parameters = MixedParameters
    /\ Len(hasher.last.input) = RATE + 1
    /\ hasher.last.input[RATE + 1] # 0
    /\ Blocks(Append(hasher.last.input, 0)) = Blocks(hasher.last.input)
    /\ evaluate(hasher.hash, Append(hasher.last.input, 0)).output = hasher.last.output
    /\ hasher.last.output # evaluate(hasher.hash, << >>).output

(***************************************************************************)
(* The permutation as a map on states (SpecPermute).                       *)
(***************************************************************************)

\* The matrix is invertible: only the zero vector is sent to zero.
MdsInvertible(parameters) ==
    \A xs \in [1 .. Width -> F] :
        MatrixProduct(parameters, xs) = [j \in 1 .. Width |-> 0]
            => xs = [j \in 1 .. Width |-> 0]

\* x -> x^alpha is a bijection of the field.
PowBijective(parameters) == { pow(x, parameters.alpha) : x \in F } = F

\* C30: when the matrix is invertible and x -> x^alpha is a bijection of
\* the field, the permutation is a bijection on states, whatever the round
\* constants and the split into full and partial rounds: the state a
\* permutation returns is returned for no other state it could have
\* entered with, and the state it entered with is itself returned for some
\* state.
C30_Bijection ==
    (call.op = "permuted"
       /\ MdsInvertible(sponge.parameters) /\ PowBijective(sponge.parameters)) =>
        /\ PermutationTable[sponge.parameters][before.state] = sponge.state
        /\ \A st \in AllStates :
              PermutationTable[sponge.parameters][st] = sponge.state
                 => st = before.state
        /\ \E st \in AllStates :
              PermutationTable[sponge.parameters][st] = before.state

\* A finished permutation of 39 rounds under a table with round constants
\* and a matrix that is not the identity, which changed every element.
C30_Witness ==
    /\ call.op = "permuted"
    /\ sponge.parameters = WideParameters
    /\ MdsInvertible(sponge.parameters)
    /\ PowBijective(sponge.parameters)
    /\ sponge.state.capacity_state[1] # before.state.capacity_state[1]
    /\ \A j \in 1 .. RATE : sponge.state.rate_state[j] # before.state.rate_state[j]

(***************************************************************************)
(* The hash of the empty input (SpecHash).                                 *)
(***************************************************************************)

\* C31: evaluate of the empty input does not abort, runs exactly one
\* permutation, adds nothing to the state, and returns the first rate
\* element of the permutation of the all-zero state; evaluate of an input
\* of n > 0 elements does not abort and runs exactly ceil(n / rate)
\* permutations.
C31_EmptyHash ==
    Evaluated =>
        LET n == Len(hasher.last.input)
            done == hasher.last.dropped
        IN /\ ~done.aborted
           /\ n = 0 =>
                 /\ PermuteCount(done.trace) = 1
                 /\ Len(done.trace) = 2
                 /\ IsPermute(done.trace[1])
                 /\ done.trace[2] = << "copy", 0 >>
                 /\ hasher.last.output =
                       PermutationTable[hasher.hash.parameters][StateDefault].rate_state[1]
                 /\ done.state = PermutationTable[hasher.hash.parameters][StateDefault]
           /\ n > 0 => PermuteCount(done.trace) = CeilDiv(n, RATE)

\* The empty input hashed under a table with round constants, to an element
\* that is not zero, on a hasher that hashed a non-empty input before.
C31_Witness ==
    /\ Evaluated
    /\ hasher.last.input = << >>
    /\ hasher.hash.parameters = MixedParameters
    /\ hasher.earlier # None
    /\ ~hasher.earlier.same_input
    /\ PermuteCount(hasher.last.dropped.trace) = 1
    /\ hasher.last.output # 0
====
